---- MODULE Spec2Model ----
(***************************************************************************)
(* Conversation-state engine of the WhatsApp booking webhook               *)
(* (src/index.js): the session store, the idempotency check, the step      *)
(* dispatch of app.post("/webhook") and the command executors.             *)
(*                                                                         *)
(* One inbound event is one action.  A handler is written as a chain of    *)
(* statements over an execution context X (the session object, whether it  *)
(* is still in the store, the messages sent, the requests issued, and      *)
(* whether an exception is in flight), in the order of the source.         *)
(*                                                                         *)
(* Time is counted in minutes.  JavaScript's undefined and null are both   *)
(* None.  Identifiers that the code splits at "_" are sequences of their   *)
(* "_"-separated tokens; free text is a sequence of characters.            *)
(***************************************************************************)
EXTENDS Integers, Sequences, FiniteSets, TLC

VARIABLES
    sessions,    \* the Map `sessions`: user -> session object; <<>> when empty
    now,         \* Date.now(), in minutes
    uuid,        \* number of session ids handed out by uuidv4()
    ev,          \* the last thing that happened: a message (its id, its handler), an
                 \* empty event, time passing, a suspended handler resumed, or a
                 \* function called on its own
    sent,        \* the messages handed to sendWhatsApp by the last step
    reqs,        \* the requests made to external services by the last step
    httpStatus,  \* the status the last step answered to the channel (200 / 500)
    invalidRun,  \* invalid submissions in a row in the session's current stage,
                 \* counted up to MAX_ATTEMPTS + 1
    processed,   \* ids of the events handled since the session object was created
    inflight,    \* the handlers suspended on a network call: the event's id and
                 \* the session object the handler holds
    unit         \* the function called on its own, outside the webhook: its
                 \* inputs and what it returned; [fn |-> "none"] under the webhook

vars == <<sessions, now, uuid, ev, sent, reqs, httpStatus, invalidRun, processed, inflight,
          unit>>

\* JavaScript's undefined / null, one per type of value: a string, a number, and
\* an object, list or text
None == "undefined"
NoNum == -1
Nil == <<>>
\* NaN, the result of parseInt on a token that is no number
NaN == -2

(***************************************************************************)
(* Bounds of the model                                                     *)
(***************************************************************************)
MaxTime == 30        \* the clock stops here
MaxSessions == 2     \* session objects created per run
MonthLen == 10       \* days per calendar month of the provider calendar
MaxInFlight == 2     \* handlers of one user suspended at the same time
MaxAge == 55         \* age in minutes of the oldest cached token at the start
MaxClock == 120      \* the clock of a function called on its own stops here
MaxScript == 5       \* outcomes of the scheduling service fixed before a call
MaxCalls == 17       \* calls of a function called on its own
MaxFaults == 1       \* calls of a scan that meet a failing scheduling service
MaxRows == 21        \* entries of a collection shown as a list
MaxShown == 4        \* list messages sent for one collection
MaxNumeral == 120    \* the largest number a run of digits in a text spells

(***************************************************************************)
(* Program constants                                                       *)
(***************************************************************************)
SESSION_TTL == 15
TOKEN_MAX_AGE == 50
MAX_ATTEMPTS == 3
FETCH_RETRIES == 3
PAGE_SIZE == 9
APPT_PAGE_SIZE == 10
LIST_CAP == 10
SCAN_LIMIT == 3
MAX_DAYS_TO_SCAN == 60

User == "u1"

(***************************************************************************)
(* Free text: sequences of characters                                      *)
(***************************************************************************)
Lowers == <<"a","b","c","d","e","f","g","h","i","j","k","l","m",
            "n","o","p","q","r","s","t","u","v","w","x","y","z">>
Uppers == <<"A","B","C","D","E","F","G","H","I","J","K","L","M",
            "N","O","P","Q","R","S","T","U","V","W","X","Y","Z">>
Digits == {"0","1","2","3","4","5","6","7","8","9"}
Letters == {Lowers[i] : i \in 1..26}

Range(q) == {q[i] : i \in DOMAIN q}

\* String.prototype.toLowerCase
toLowerCase(t) ==
    [i \in DOMAIN t |->
        IF \E k \in 1..26 : Uppers[k] = t[i]
        THEN Lowers[CHOOSE k \in 1..26 : Uppers[k] = t[i]]
        ELSE t[i]]

\* String.prototype.trim
trim(t) ==
    LET keep == {i \in DOMAIN t : t[i] # " "}
    IN  IF keep = {} THEN <<>>
        ELSE LET lo == CHOOSE i \in keep : \A j \in keep : i <= j
                 hi == CHOOSE i \in keep : \A j \in keep : i >= j
             IN  SubSeq(t, lo, hi)

\* String.prototype.includes
includes(t, w) ==
    \E i \in 0..(Len(t) - Len(w)) : SubSeq(t, i + 1, i + Len(w)) = w

\* src/index.js validateEmail
validateEmail(email0) ==
    LET email == toLowerCase(trim(email0))
        n == Len(email)
        LocalCls == Letters \cup Digits \cup {".", "_", "%", "+", "-"}
        DomCls == Letters \cup Digits \cup {".", "-"}
        \* /^[a-z0-9._%+-]+@[a-z0-9.-]+\.[a-z]{2,}$/
        regex ==
            \E at \in 2..n : \E dot \in (at + 2)..(n - 2) :
                /\ email[at] = "@"
                /\ \A i \in 1..(at - 1) : email[i] \in LocalCls
                /\ \A i \in (at + 1)..(dot - 1) : email[i] \in DomCls
                /\ email[dot] = "."
                /\ \A i \in (dot + 1)..n : email[i] \in Letters
        atPos == CHOOSE i \in 1..n : email[i] = "@" /\ \A j \in 1..(i - 1) : email[j] # "@"
        localPart == SubSeq(email, 1, atPos - 1)
        domain == SubSeq(email, atPos + 1, n)
        lastDot == CHOOSE i \in 1..Len(domain) :
                       domain[i] = "." /\ \A j \in (i + 1)..Len(domain) : domain[j] # "."
        tld == SubSeq(domain, lastDot + 1, Len(domain))
    IN  /\ regex
        /\ Len(localPart) >= 1 /\ Len(localPart) <= 64
        /\ "." \in Range(domain)
        /\ domain[1] \notin {".", "-"}
        /\ domain[Len(domain)] \notin {".", "-"}
        /\ Len(tld) >= 2

\* src/index.js validatePhone
validatePhone(phone) ==
    LET IsDigit(c) == c \in Digits
        digits == SelectSeq(phone, IsDigit)
    IN  /\ Len(digits) = 10
        /\ digits[1] \in {"6", "7", "8", "9"}

\* the name check of the AWAIT_NAME handler: !name || name.length > 100
validName(name) == Len(name) > 0 /\ Len(name) <= 100

(***************************************************************************)
(* The session store                                                       *)
(***************************************************************************)
StrFields == {"step", "language", "lastMsgId", "selectedGroup", "selectedStaff",
              "paymentUrl", "stripePaymentId", "zohoToken"}
NumFields == {"id", "updated", "datePage", "slotPage",
              "nameAttempts", "emailAttempts", "phoneAttempts",
              "appointmentPage", "searchStartDate", "currentSlotDate",
              "currentDateSlotIndex", "zohoTokenTime"}
ObjFields == {"services", "selectedService", "staffs", "months", "selectedMonth",
              "availableDates", "selectedDate", "slots", "selectedSlot",
              "customerName", "customerEmail", "customerPhone",
              "helpName", "helpEmail", "helpMessage",
              "appointments", "rescheduleData", "allSlotsForCurrentDate"}
SessionFields == StrFields \cup NumFields \cup ObjFields

\* { id: uuidv4(), step: "INIT", data: {}, updated: Date.now() }
NewSession(id, t) ==
    [f \in SessionFields |->
        CASE f = "id" -> id
          [] f = "step" -> "INIT"
          [] f = "updated" -> t
          [] f \in StrFields -> None
          [] f \in NumFields -> NoNum
          [] OTHER -> Nil]

\* the fields a conversation accumulates (everything but id, step, updated,
\* lastMsgId, language and the cached credential)
SelectionFields ==
    SessionFields \ {"id", "step", "updated", "lastMsgId", "language",
                     "zohoToken", "zohoTokenTime"}

\* sessions.get(user), when the Map holds the user
Stored == sessions[User]
Has == User \in DOMAIN sessions

\* getSession: whether the stored object is replaced by a new one
\*   !session || Date.now() - session.updated > SESSION_TTL
Expired(store, t) ==
    User \notin DOMAIN store \/ t - store[User].updated > SESSION_TTL

\* getSession(user): the object returned, its update time refreshed
\* (a faulty variant that leaves the update time of a stored session alone)
getSessionNoRefresh(store, t, id) ==
    IF Expired(store, t) THEN NewSession(id, t) ELSE store[User]
getSession(store, t, id) ==
    IF Expired(store, t)
    THEN NewSession(id, t)
    ELSE [store[User] EXCEPT !.updated = t]

(***************************************************************************)
(* Execution context of one handler run                                    *)
(***************************************************************************)
Ctx(s, t, script, idp) ==
    [s |-> s, stored |-> TRUE, t |-> t, sent |-> <<>>, reqs |-> <<>>,
     thrown |-> FALSE, script |-> script, idp |-> idp]

\* session.<f> = v
set(X, f, v) == IF X.thrown THEN X ELSE [X EXCEPT !.s[f] = v]

\* await sendWhatsApp(from, payload); the status it returns is ignored by
\* every caller
sendWhatsApp(X, payload) ==
    IF X.thrown THEN X ELSE [X EXCEPT !.sent = Append(@, payload)]

\* an outbound call to the identity provider, the scheduling service, the
\* payment processor or the ticket sink
request(X, r) == IF X.thrown THEN X ELSE [X EXCEPT !.reqs = Append(@, r)]

\* clearSession(from): sessions.delete(user)
clearSession(X) == IF X.thrown THEN X ELSE [X EXCEPT !.stored = FALSE]

throw(X) == [X EXCEPT !.thrown = TRUE]

\* getSessionZohoToken(session); X.idp is the identity provider's behaviour
\* during this event: "ok", "notoken" (an answer without access_token) or
\* "throw" (transport failure)
\* (a faulty variant that still uses a token issued TOKEN_MAX_AGE minutes ago)
getSessionZohoTokenLate(X) ==
    IF X.thrown THEN X
    ELSE IF X.s.zohoToken # None /\ X.t - X.s.zohoTokenTime <= TOKEN_MAX_AGE
    THEN X
    ELSE LET X1 == request(X, [svc |-> "idp", op |-> "refresh"])
         IN  IF X.idp = "throw" THEN throw(X1)
             ELSE set(set(X1, "zohoToken", IF X.idp = "ok" THEN "tok" ELSE None),
                      "zohoTokenTime", X.t)
getSessionZohoToken(X) ==
    IF X.thrown THEN X
    ELSE IF /\ X.s.zohoToken # None
            /\ X.s.zohoTokenTime # NoNum
            /\ X.t - X.s.zohoTokenTime < TOKEN_MAX_AGE
    THEN X
    ELSE LET X1 == request(X, [svc |-> "idp", op |-> "refresh"])
         IN  IF X.idp = "throw" THEN throw(X1)
             ELSE set(set(X1, "zohoToken", IF X.idp = "ok" THEN "tok" ELSE None),
                      "zohoTokenTime", X.t)

\* (a faulty variant of fetchZoho that tries again after every failure,
\* whatever is left of the budget)
RECURSIVE fetchZohoUnbounded(_, _, _, _)
fetchZohoUnbounded(X, url, payload, retries) ==
    LET Xt == getSessionZohoToken(X)
        oc == IF Xt.script = <<>> THEN "ok" ELSE Head(Xt.script)
        Xr == [request(Xt, [svc |-> "zoho", op |-> "fetch", url |-> url,
                            token |-> Xt.s.zohoToken, answer |-> oc])
                   EXCEPT !.script = IF @ = <<>> THEN @ ELSE Tail(@)]
    IN  IF Xt.thrown THEN [X |-> Xt, status |-> 0, data |-> Nil, parseError |-> FALSE]
        ELSE IF oc \in {"err", "429"}
        THEN fetchZohoUnbounded(request(Xr, [svc |-> "timer", op |-> "sleep",
                                             ms |-> 1000 * (4 - retries)]),
                                url, payload, retries)
        ELSE [X |-> Xr, status |-> 200, data |-> payload, parseError |-> oc = "nonjson"]

\* fetchZoho(url, opts, retries, session).  X.script lists the outcomes of the
\* coming attempts against the scheduling service ("ok", "429", "nonjson",
\* "err"); once it is used up every attempt is "ok".  payload is the list the
\* service answers at response.returnvalue.data.  Result: the context, the
\* status and that list (Nil when the body has none).  Each attempt is
\* recorded as a request with the token it carried and the outcome it met.
RECURSIVE fetchZoho(_, _, _, _)
fetchZoho(X, url, payload, retries) ==
    IF X.thrown THEN [X |-> X, status |-> 0, data |-> Nil, parseError |-> FALSE]
    ELSE
    LET Xt == getSessionZohoToken(X)
        sleep(Y) == request(Y, [svc |-> "timer", op |-> "sleep",
                                ms |-> 1000 * (4 - retries)])
    IN  IF Xt.thrown
        THEN \* catch (err)
             IF retries > 0
             THEN fetchZoho(sleep([Xt EXCEPT !.thrown = FALSE]), url, payload, retries - 1)
             ELSE [X |-> Xt, status |-> 0, data |-> Nil, parseError |-> FALSE]
        ELSE
        LET oc == IF Xt.script = <<>> THEN "ok" ELSE Head(Xt.script)
            Xr == [request(Xt, [svc |-> "zoho", op |-> "fetch", url |-> url,
                                token |-> Xt.s.zohoToken, answer |-> oc])
                       EXCEPT !.script = IF @ = <<>> THEN @ ELSE Tail(@)]
        IN  CASE oc = "err" ->
                     IF retries > 0
                     THEN fetchZoho(sleep(Xr), url, payload, retries - 1)
                     ELSE [X |-> throw(Xr), status |-> 0, data |-> Nil,
                           parseError |-> FALSE]
              [] oc = "429" ->
                     IF retries > 0
                     THEN fetchZoho(sleep(Xr), url, payload, retries - 1)
                     ELSE [X |-> Xr, status |-> 429, data |-> Nil, parseError |-> FALSE]
              [] oc = "nonjson" ->
                     [X |-> Xr, status |-> 200, data |-> Nil, parseError |-> TRUE]
              [] OTHER ->
                     [X |-> Xr, status |-> 200, data |-> payload, parseError |-> FALSE]

(***************************************************************************)
(* Provider data.  Days are counted from today (day 0); a calendar month   *)
(* of the provider calendar has MonthLen days and today is the first day   *)
(* of month 0.                                                             *)
(***************************************************************************)
Pad2(n) == IF n < 10 THEN "0" \o ToString(n) ELSE ToString(n)

\* the services the scheduling service lists
svcA == [id |-> "svcA", service_type |-> "APPOINTMENT",
         assigned_staffs |-> <<"st1">>, assigned_groups |-> <<>>,
         let_customer_select_staff |-> TRUE, price |-> 0]
svcG == [id |-> "svcG", service_type |-> "COLLECTIVE",
         assigned_staffs |-> <<>>, assigned_groups |-> <<[id |-> "g1"]>>,
         let_customer_select_staff |-> FALSE, price |-> 500]
svcR == [id |-> "svcR", service_type |-> "RESOURCE",
         assigned_staffs |-> <<"r1">>, assigned_groups |-> <<>>,
         let_customer_select_staff |-> FALSE, price |-> 0]
Catalog == <<svcA, svcG, svcR>>

\* the staff directory of the workspace
StaffDirectory == <<[id |-> "st1"], [id |-> "st2"]>>

\* a slot time as the provider writes it: hh:mm, with " AM" / " PM" or without
Time(hh, mm, ap) == [hh |-> hh, mm |-> mm, ap |-> ap]
\* the i-th slot of a day
DaySlot(i) == Time(Pad2(i), "00", "AM")
DaySlots(n) == [i \in 1..n |-> DaySlot(i)]

\* what the provider calendar answers for a day, its list of open slots:
\* calendar "brief" has SCAN_LIMIT + 1 slots today and none later, "pair" has
\* 8 today and 7 tomorrow, "gaps" has 3 on days 1 and 3, "late" has 2 on each
\* of days 2, 3 and 4, and "none" has none at all
Cal(name, day) ==
    CASE name = "brief" /\ day = 0 -> DaySlots(SCAN_LIMIT + 1)
      [] name = "pair" /\ day \in {0, 1} -> DaySlots(8 - day)
      [] name = "gaps" /\ day \in {1, 3} -> DaySlots(3)
      [] name = "late" /\ day \in {2, 3, 4} -> DaySlots(2)
      [] OTHER -> <<>>
Calendars == {"none", "brief"}

\* the appointments the provider holds for a phone number
Appt(b, svc, staff) ==
    [booking_id |-> b, service_id |-> svc, staff_id |-> staff,
     future |-> TRUE, status |-> "upcoming"]
Books == {<<>>, <<Appt("b1", "svcA", "st1")>>}

(***************************************************************************)
(* Dates and identifiers                                                   *)
(***************************************************************************)
\* formatDateForZoho(date): DD-Mon-YYYY of the day
formatDateForZoho(day) == "Z" \o Pad2(day)
\* formatDate(date): en-GB "DD Mon YYYY" of the day
formatDate(day) == "L" \o Pad2(day)

\* the day a DD-Mon-YYYY string names; NaN when the string is no such date
LastDay == 3 * MonthLen + 2 * MAX_DAYS_TO_SCAN + 2
ParseZohoDate(str) ==
    IF \E d \in 0..LastDay : formatDateForZoho(d) = str
    THEN CHOOSE d \in 0..LastDay : formatDateForZoho(d) = str
    ELSE NaN

\* `${year}-${MM}-${day}`: the YYYY-MM-DD rendering of a day, and the day such
\* a string names
formatIsoDate(day) == "I" \o Pad2(day)
ParseIsoDate(str) ==
    IF \E d \in 0..LastDay : formatIsoDate(d) = str
    THEN CHOOSE d \in 0..LastDay : formatIsoDate(d) = str
    ELSE NaN
\* dateStr.split("-") reordered: year, index of the month in the table plus
\* one, day; a string that is no DD-Mon-YYYY date gives no year and month 00
isoDate(dateStr) ==
    IF ParseZohoDate(dateStr) = NaN THEN "undefined-00-" \o dateStr
    ELSE formatIsoDate(ParseZohoDate(dateStr))

\* timeSlot.replace(/[:\s]/g, "-")
TimeToken(tm) ==
    tm.hh \o "-" \o tm.mm \o (IF tm.ap = "" THEN "" ELSE "-" \o tm.ap)

\* the three months offered, from the current one
MonthIds == <<<<"month", "2025", "11">>, <<"month", "2025", "12">>,
              <<"month", "2026", "01">>>>
Months == [k \in 1..3 |-> [id |-> MonthIds[k], index |-> k - 1]]

(***************************************************************************)
(* Outbound messages: the builder, its text key, the ids of its rows       *)
(***************************************************************************)
Message(tmpl, key, rows) == [tmpl |-> tmpl, key |-> key, rows |-> rows]

RowIds(list) == [i \in DOMAIN list |-> list[i].id]
FirstN(list, n) == SubSeq(list, 1, IF Len(list) < n THEN Len(list) ELSE n)
\* Array.prototype.slice(start, end)
slice(list, start, end) ==
    SubSeq(list, start + 1, IF Len(list) < end THEN Len(list) ELSE end)

waLanguageSelection ==
    Message("waLanguageSelection", "language",
            <<<<"lang", "en">>, <<"lang", "hi">>, <<"lang", "te">>>>)
waMainMenu(s) == Message("waMainMenu", "mainMenuWelcome", <<>>)
waMyBookingsMenu(s) == Message("waMyBookingsMenu", "myBookingsMenu", <<>>)
waServiceList(s, services) ==
    Message("waServiceList", "selectService",
            [i \in DOMAIN FirstN(services, LIST_CAP) |-> <<services[i].id>>])
waStaffList(s, staffs) ==
    Message("waStaffList", "selectStaff",
            [i \in DOMAIN staffs |-> <<"staff", staffs[i].id>>])
waMonthList(s, months) ==
    Message("waMonthList", "chooseMonth", RowIds(FirstN(months, LIST_CAP)))
waDateList(s, dates) ==
    Message("waDateList", "availableDatesIn", RowIds(FirstN(dates, LIST_CAP)))
waSlotList(s, slots) ==
    Message("waSlotList", "availableSlotsOn", RowIds(FirstN(slots, LIST_CAP)))
waTextPrompt(s, key) == Message("waTextPrompt", key, <<>>)
waConfirmation(s) == Message("waConfirmation", "bookingConfirmed", <<>>)
waError(s, key) == Message("waError", key, <<>>)
waHelpText(key) == Message("text", key, <<>>)
waSlotListWithShowMore(s, slots, hasMore) ==
    Message("waSlotListWithShowMore", "availableSlots",
            RowIds(slots) \o (IF hasMore THEN <<<<"show", "more", "slots">>>> ELSE <<>>))
waSearchingMessage(s) == Message("waSearchingMessage", "searchingSlots", <<>>)
waSearchingAppointments(s) ==
    Message("waSearchingAppointments", "searchingAppointments", <<>>)
waPaymentRequired(s) == Message("waPaymentRequired", "paymentRequired", <<>>)
waPaymentPending(s) == Message("waPaymentPending", "paymentPending", <<>>)
waSuccessMessage(s, key) == Message("waSuccessMessage", key, <<>>)
\* appending the synthetic row of the date and slot pages
WithShowMore(m, more, id) ==
    IF more THEN [m EXCEPT !.rows = Append(@, id)] ELSE m

(***************************************************************************)
(* Inbound events                                                          *)
(***************************************************************************)
TextMsg(id, body) ==
    [id |-> id, type |-> "text", text |-> body, button |-> None, list |-> Nil]
ButtonMsg(id, b) ==
    [id |-> id, type |-> "interactive", text |-> Nil, button |-> b, list |-> Nil]
ListMsg(id, l) ==
    [id |-> id, type |-> "interactive", text |-> Nil, button |-> None, list |-> l]
ImageMsg(id) ==
    [id |-> id, type |-> "image", text |-> Nil, button |-> None, list |-> Nil]

\* msg.type === "text"
IsText(msg) == msg.type = "text"
\* msg.type === "interactive" && msg.interactive.button_reply
IsButton(msg) == msg.type = "interactive" /\ msg.button # None
\* msg.type === "interactive" && msg.interactive.list_reply
IsList(msg) == msg.type = "interactive" /\ msg.list # Nil

\* the identifier a token sequence stands for
RECURSIVE Join(_)
Join(tokens) ==
    IF tokens = <<>> THEN ""
    ELSE IF Len(tokens) = 1 THEN tokens[1]
    ELSE tokens[1] \o "_" \o Join(Tail(tokens))

\* id.replace(prefix + "_", "")
StripPrefix(id, prefix) ==
    IF Len(id) > 1 /\ id[1] = prefix THEN Join(Tail(id)) ELSE Join(id)

\* (list || []).find((x) => x.id === id); Nil when there is none
Find(list, id) ==
    IF \E i \in DOMAIN list : list[i].id = id
    THEN list[CHOOSE i \in DOMAIN list :
                  list[i].id = id /\ \A j \in 1..(i - 1) : list[j].id # id]
    ELSE Nil

\* x || 0
OrZero(n) == IF n = NoNum THEN 0 ELSE n

(***************************************************************************)
(* Handlers of app.post("/webhook"), in the order of the source.  Each     *)
(* takes the context after the idempotency check and returns the context   *)
(* at the handler's return or throw.                                       *)
(***************************************************************************)

\* 1. LANGUAGE SELECTION (session.language unset)
\* (a faulty variant that asks again whatever the answer)
LanguageNeverSet(X, msg) ==
    set(sendWhatsApp(X, waLanguageSelection), "step", "AWAIT_LANGUAGE")
LanguageSelectionHandler(X, msg) ==
    IF X.s.step = "AWAIT_LANGUAGE" /\ IsList(msg)
    THEN LET X1 == set(X, "language", StripPrefix(msg.list, "lang"))
             X2 == set(X1, "step", "AWAIT_MAIN")
         IN  sendWhatsApp(X2, waMainMenu(X2.s))
    ELSE set(sendWhatsApp(X, waLanguageSelection), "step", "AWAIT_LANGUAGE")

\* 2. MAIN MENU (step INIT), 4. HELP: HOME BUTTON, 5. TRY AGAIN BUTTON
MainMenuHandler(X, msg) ==
    sendWhatsApp(set(X, "step", "AWAIT_MAIN"), waMainMenu(X.s))

\* 3. HANDLE MAIN MENU BUTTONS
MainMenuButtonsHandler(X, msg) ==
    IF msg.button = "my_bookings_btn"
    THEN sendWhatsApp(set(X, "step", "AWAIT_BOOKING_MENU"), waMyBookingsMenu(X.s))
    ELSE \* help_btn
         sendWhatsApp(set(X, "step", "AWAIT_HELP_NAME"), waHelpText("helpEnterName"))

\* 3A. HANDLE MY BOOKINGS SUBMENU BUTTONS; services is the provider's list
BookingMenuButtonsHandler(X, msg, services) ==
    CASE msg.button = "book_new_btn" ->
            LET r == fetchZoho(X, "services", services, FETCH_RETRIES)
            IN  IF r.status = 200 /\ r.data # Nil /\ Len(r.data) > 0
                THEN LET X1 == set(r.X, "services", r.data)
                         X2 == set(X1, "step", "AWAIT_SERVICE")
                     IN  sendWhatsApp(X2, waServiceList(X2.s, r.data))
                ELSE sendWhatsApp(r.X, waError(X.s, "noServices"))
      [] msg.button = "reschedule_btn" ->
            sendWhatsApp(set(X, "step", "AWAIT_RESCHEDULE_PHONE"),
                         waTextPrompt(X.s, "enterPhone"))
      [] OTHER -> \* cancel_btn
            sendWhatsApp(set(X, "step", "AWAIT_CANCEL_PHONE"),
                         waTextPrompt(X.s, "enterPhone"))

\* the month list built by the service and staff handlers
OfferMonths(X) ==
    LET X1 == set(X, "months", Months)
        X2 == set(X1, "step", "AWAIT_MONTH")
    IN  sendWhatsApp(X2, waMonthList(X2.s, Months))

\* 6. SERVICE SELECTION; staffDir is the provider's staff directory
ServiceSelectionHandler(X, msg, staffDir) ==
    LET service == IF X.s.services = Nil THEN Nil
                   ELSE Find(X.s.services, Join(msg.list))
    IN  IF service = Nil
        THEN set(sendWhatsApp(X, waError(X.s, "invalidService")), "step", "AWAIT_MAIN")
        ELSE
        LET X1 == set(X, "selectedService", service)
            stype == service.service_type
        IN  CASE stype \in {"COLLECTIVE", "GROUP"} ->
                    OfferMonths(IF Len(service.assigned_groups) > 0
                                THEN set(X1, "selectedGroup", service.assigned_groups[1].id)
                                ELSE X1)
              [] /\ stype \in {"APPOINTMENT", "ONE-ON-ONE", "ONE TO ONE"}
                 /\ Len(service.assigned_staffs) > 0
                 /\ service.let_customer_select_staff ->
                    LET r == fetchZoho(X1, "staffs", staffDir, FETCH_RETRIES)
                        allStaffs == IF r.data = Nil THEN <<>> ELSE r.data
                        Assigned(st) == st.id \in Range(service.assigned_staffs)
                        assignedStaffs == SelectSeq(allStaffs, Assigned)
                        X2 == set(r.X, "staffs", assignedStaffs)
                        X3 == set(X2, "step", "AWAIT_STAFF")
                    IN  sendWhatsApp(X3, waStaffList(X3.s, assignedStaffs))
              [] OTHER ->
                    OfferMonths(IF Len(service.assigned_staffs) > 0
                                THEN set(X1, "selectedStaff", service.assigned_staffs[1])
                                ELSE X1)

\* 7. STAFF SELECTION
StaffSelectionHandler(X, msg) ==
    OfferMonths(set(X, "selectedStaff", StripPrefix(msg.list, "staff")))

\* the availableslots query of a day: service_id, selected_date and the
\* group_id or staff_id that goes with the service type
SlotQuery(s, dateStr) ==
    [op |-> "availableslots", service_id |-> s.selectedService.id,
     selected_date |-> dateStr,
     group_id |-> IF s.selectedService.service_type \in {"COLLECTIVE", "GROUP"}
                  THEN s.selectedGroup ELSE None,
     staff_id |-> IF s.selectedService.service_type \in {"COLLECTIVE", "GROUP"}
                  THEN None ELSE s.selectedStaff]

\* 8. MONTH SELECTION: the loop over the days of the month, one query a day
RECURSIVE ScanMonth(_, _, _, _, _)
ScanMonth(X, cal, day, lastDay, availableDates) ==
    IF day > lastDay \/ X.thrown
    THEN [X |-> X, availableDates |-> availableDates]
    ELSE LET r == fetchZoho(X, SlotQuery(X.s, formatDateForZoho(day)), Cal(cal, day),
                            FETCH_RETRIES)
             found == r.data # Nil /\ Len(r.data) > 0
             entry == [id |-> <<"date", formatDateForZoho(day)>>,
                       label |-> formatDate(day),
                       rawDate |-> formatDateForZoho(day),
                       slots |-> IF found THEN Len(r.data) ELSE 0]
         IN  ScanMonth(r.X, cal, day + 1, lastDay,
                       IF found THEN Append(availableDates, entry) ELSE availableDates)

\* a date page or slot page with its show-more row
DatePage(s, dates, page) ==
    WithShowMore(waDateList(s, slice(dates, page * PAGE_SIZE, (page + 1) * PAGE_SIZE)),
                 Len(dates) > (page + 1) * PAGE_SIZE, <<"show", "more", "dates">>)
SlotPage(s, slots, page) ==
    WithShowMore(waSlotList(s, slice(slots, page * PAGE_SIZE, (page + 1) * PAGE_SIZE)),
                 Len(slots) > (page + 1) * PAGE_SIZE, <<"show", "more", "slots">>)

MonthSelectionHandler(X, msg, cal) ==
    LET monthObj == IF X.s.months = Nil THEN Nil ELSE Find(X.s.months, msg.list)
    IN  IF monthObj = Nil
        THEN set(sendWhatsApp(X, waError(X.s, "invalidService")), "step", "AWAIT_STAFF")
        ELSE
        LET X1 == sendWhatsApp(set(X, "selectedMonth", monthObj), waSearchingMessage(X.s))
            \* session.selectedService.id: a TypeError without a service
            X2 == IF X1.s.selectedService = Nil THEN throw(X1) ELSE X1
            first == monthObj.index * MonthLen
            scan == ScanMonth(X2, cal, first, first + MonthLen - 1, <<>>)
        IN  IF scan.availableDates = <<>>
            THEN set(sendWhatsApp(scan.X, waError(X.s, "noSlotsAvailable")),
                     "step", "AWAIT_MONTH")
            ELSE LET X3 == set(scan.X, "availableDates", scan.availableDates)
                     X4 == set(set(X3, "datePage", 0), "step", "AWAIT_DATE")
                 IN  sendWhatsApp(X4, DatePage(X4.s, scan.availableDates, 0))

\* 9. DATE SELECTION
DateSelectionHandler(X, msg, cal) ==
    IF msg.list = <<"show", "more", "dates">>
    THEN \* session.availableDates.slice, session.selectedMonth.label
         LET X1 == set(X, "datePage", OrZero(X.s.datePage) + 1)
         IN  IF X.s.availableDates = Nil \/ X.s.selectedMonth = Nil THEN throw(X1)
             ELSE sendWhatsApp(X1, DatePage(X1.s, X1.s.availableDates, X1.s.datePage))
    ELSE
    LET dateObj == IF X.s.availableDates = Nil THEN Nil
                   ELSE Find(X.s.availableDates, msg.list)
    IN  IF dateObj = Nil
        THEN set(sendWhatsApp(X, waError(X.s, "invalidSlot")), "step", "AWAIT_MONTH")
        ELSE
        LET X1 == sendWhatsApp(set(X, "selectedDate", dateObj), waSearchingMessage(X.s))
            X2 == IF X1.s.selectedService = Nil THEN throw(X1) ELSE X1
            r == IF X2.thrown THEN [X |-> X2, data |-> Nil]
                 ELSE fetchZoho(X2, SlotQuery(X2.s, dateObj.rawDate),
                                Cal(cal, ParseZohoDate(dateObj.rawDate)), FETCH_RETRIES)
            slots == IF r.data = Nil THEN <<>> ELSE r.data
        IN  IF X2.thrown THEN X2
            ELSE IF r.X.thrown
            THEN \* catch (error) of the inner try
                 set(sendWhatsApp([r.X EXCEPT !.thrown = FALSE],
                                  waError(X.s, "noSlotsAvailable")), "step", "AWAIT_DATE")
            ELSE IF slots = <<>>
            THEN set(sendWhatsApp(r.X, waError(X.s, "noSlotsAvailable")),
                     "step", "AWAIT_DATE")
            ELSE LET sessionSlots ==
                         [i \in DOMAIN slots |->
                             [id |-> <<"slot", dateObj.rawDate, TimeToken(slots[i]),
                                       ToString(i - 1)>>,
                              time |-> slots[i]]]
                     X3 == set(r.X, "slots", sessionSlots)
                     X4 == set(set(X3, "slotPage", 0), "step", "AWAIT_SLOT")
                 IN  sendWhatsApp(X4, SlotPage(X4.s, sessionSlots, 0))

\* 10. SLOT SELECTION
\* (a faulty variant that asks for the name without storing the slot)
SlotNotStored(X, msg) ==
    set(set(sendWhatsApp(X, waTextPrompt(X.s, "enterName")), "step", "AWAIT_NAME"),
        "nameAttempts", 0)
SlotSelectionHandler(X, msg) ==
    IF msg.list = <<"show", "more", "slots">>
    THEN \* session.slots.slice, session.selectedDate.label
         LET X1 == set(X, "slotPage", OrZero(X.s.slotPage) + 1)
         IN  IF X.s.slots = Nil \/ X.s.selectedDate = Nil THEN throw(X1)
             ELSE sendWhatsApp(X1, SlotPage(X1.s, X1.s.slots, X1.s.slotPage))
    ELSE
    LET slotObj == IF X.s.slots = Nil THEN Nil ELSE Find(X.s.slots, msg.list)
    IN  IF slotObj = Nil
        THEN set(sendWhatsApp(X, waError(X.s, "invalidSlot")), "step", "AWAIT_DATE")
        ELSE LET X1 == set(X, "selectedSlot", slotObj)
                 X2 == sendWhatsApp(X1, waTextPrompt(X.s, "enterName"))
             IN  set(set(X2, "step", "AWAIT_NAME"), "nameAttempts", 0)

\* the invalid branch shared by the validation stages: count the attempt and
\* abort on the third
\* (a faulty variant that prompts again however many attempts were made)
InvalidAttemptForever(X, counter, promptMsg) ==
    sendWhatsApp(set(X, counter, OrZero(X.s[counter]) + 1), promptMsg)
InvalidAttempt(X, counter, promptMsg) ==
    LET X1 == set(X, counter, OrZero(X.s[counter]) + 1)
    IN  IF X1.s[counter] >= MAX_ATTEMPTS
        THEN clearSession(sendWhatsApp(X1, waError(X.s, "bookingCancelled")))
        ELSE sendWhatsApp(X1, promptMsg)

\* 11. NAME INPUT
\* (a faulty variant that skips the address and asks for the phone number)
NameInputSkipsEmail(X, msg) ==
    set(sendWhatsApp(set(X, "customerName", trim(msg.text)),
                     waTextPrompt(X.s, "enterPhone")), "step", "AWAIT_PHONE")
NameInputHandler(X, msg) ==
    LET name == trim(msg.text)
    IN  IF ~validName(name)
        THEN InvalidAttempt(X, "nameAttempts", waTextPrompt(X.s, "invalidName"))
        ELSE LET X1 == set(X, "customerName", name)
                 X2 == sendWhatsApp(X1, waTextPrompt(X.s, "enterEmail"))
             IN  set(set(X2, "step", "AWAIT_EMAIL"), "emailAttempts", 0)

\* 12. EMAIL INPUT
EmailInputHandler(X, msg) ==
    LET email == trim(msg.text)
    IN  IF ~validateEmail(email)
        THEN InvalidAttempt(X, "emailAttempts", waTextPrompt(X.s, "invalidEmail"))
        ELSE LET X1 == set(X, "customerEmail", email)
                 X2 == sendWhatsApp(X1, waTextPrompt(X.s, "enterPhone"))
             IN  set(set(X2, "step", "AWAIT_PHONE"), "phoneAttempts", 0)

\* createStripePaymentLink(session, service): the link, or None when the
\* processor refuses or fails
createStripePaymentLink(X, link) ==
    request(X, [svc |-> "stripe", op |-> "paymentLinks.create", session_id |-> X.s.id])

\* verifyStripePayment(session): paid says whether the processor lists a paid
\* checkout of this session (a failing lookup counts as not paid)
verifyStripePayment(X, paid) ==
    LET X1 == request(X, [svc |-> "stripe", op |-> "checkout.sessions.list",
                          answer |-> paid])
    IN  [X |-> IF paid THEN set(X1, "stripePaymentId", "pay") ELSE X1,
         verified |-> paid]

\* the slot time matches /(\d{1,2}):(\d{2})(?:\s*(AM|PM))?/i
TimeMatches(tm) == tm.hh # "" /\ tm.mm # ""

\* parseInt(digits, 10) of a run of digits; NaN for any other token
ParseNum(tok) ==
    IF \E n \in 0..MaxNumeral : tok \in {ToString(n), Pad2(n)}
    THEN CHOOSE n \in 0..MaxNumeral : tok \in {ToString(n), Pad2(n)}
    ELSE NaN

\* timeMatch[3]?.toUpperCase()
Upper(ap) == CASE ap = "" -> None
               [] ap = "am" -> "AM"
               [] ap = "pm" -> "PM"
               [] OTHER -> ap

\* the conversion of the matched hour to 24-hour form
\*   if (ampm === "PM" && hour !== 12) hour += 12;
\*   else if (ampm === "AM" && hour === 12) hour = 0;
\* (a faulty variant that adds 12 to every PM hour and keeps every AM hour)
to24Naive(hour, ampm) == IF ampm = "PM" THEN hour + 12 ELSE hour
to24(hour, ampm) ==
    CASE ampm = "PM" /\ hour # 12 -> hour + 12
      [] ampm = "AM" /\ hour = 12 -> 0
      [] OTHER -> hour

\* fromTimeStr: `${dateLabel} ${hour}:${minute}:00`
fromTimeStr(s) ==
    LET tm == s.selectedSlot.time
    IN  [date |-> s.selectedDate.label,
         hour |-> Pad2(to24(ParseNum(tm.hh), Upper(tm.ap))),
         minute |-> tm.mm]

\* the duration of a service in minutes: the first run of digits of its
\* free-text duration (a sequence of tokens), DEFAULT_DURATION without one
DEFAULT_DURATION == 30
serviceDuration(service) ==
    IF "duration" \notin DOMAIN service \/ service.duration = Nil
    THEN DEFAULT_DURATION
    ELSE LET text == service.duration
             runs == {i \in DOMAIN text : ParseNum(text[i]) # NaN}
         IN  IF runs = {} THEN DEFAULT_DURATION
             ELSE ParseNum(text[CHOOSE i \in runs : \A j \in runs : i <= j])

\* a Date `minutes' after 00:00 of a day, written DD-Mon-YYYY HH:MM:00
MinutesPerDay == 24 * 60
DateTime(day, minutes) ==
    [date |-> formatDateForZoho(day + minutes \div MinutesPerDay),
     hour |-> Pad2((minutes % MinutesPerDay) \div 60),
     minute |-> Pad2(minutes % 60)]
\* the same fields of an Invalid Date
InvalidDateTime == [date |-> "NaN-undefined-NaN", hour |-> "NaN", minute |-> "NaN"]

\* toTimeStr: dateLabel.split("-") gives day, month and year, fromDateObj is
\* new Date(year, monthIndex, day, hour, minute, 0), and toDateObj is
\* duration minutes later
toTimeStr(s) ==
    LET from == fromTimeStr(s)
        day == ParseZohoDate(s.selectedDate.label)
    IN  IF day = NaN THEN InvalidDateTime
        ELSE DateTime(day, ParseNum(from.hour) * 60 + ParseNum(from.minute)
                           + serviceDuration(s.selectedService))

\* the staff_id / group_id / resource_id of the creation payload
\* (a faulty variant that sends the staff member left on the session as
\* staff_id whatever the category of the service)
BookingTargetStaffFirst(s) ==
    IF s.selectedStaff # None
    THEN [kind |-> "staff_id", value |-> s.selectedStaff]
    ELSE IF s.selectedGroup # None
    THEN [kind |-> "group_id", value |-> s.selectedGroup]
    ELSE [kind |-> None, value |-> None]
BookingTarget(s) ==
    LET svc == s.selectedService
        stype == svc.service_type
    IN  CASE stype \in {"COLLECTIVE", "GROUP"} ->
                IF s.selectedGroup # None
                THEN [kind |-> "group_id", value |-> s.selectedGroup]
                ELSE IF Len(svc.assigned_groups) > 0
                THEN [kind |-> "group_id", value |-> svc.assigned_groups[1].id]
                ELSE [kind |-> None, value |-> None]
          [] stype = "RESOURCE" ->
                IF s.selectedStaff # None
                THEN [kind |-> "resource_id", value |-> s.selectedStaff]
                ELSE IF Len(svc.assigned_staffs) > 0
                THEN [kind |-> "resource_id", value |-> svc.assigned_staffs[1]]
                ELSE [kind |-> None, value |-> None]
          [] OTHER ->
                IF s.selectedStaff # None
                THEN [kind |-> "staff_id", value |-> s.selectedStaff]
                ELSE IF Len(svc.assigned_staffs) > 0
                THEN [kind |-> "staff_id", value |-> svc.assigned_staffs[1]]
                ELSE [kind |-> None, value |-> None]

\* createZohoAppointment(session, userPhone); resp is the scheduling service's
\* answer to the creation request: "success", "failure" (any other body), or
\* "err" when the transport fails and there is no answer
\* (a faulty variant that sends the request again after a failure and keeps
\* the session)
createZohoAppointmentRetry(X, resp) ==
    IF X.s.selectedService = Nil \/ X.s.selectedDate = Nil \/ X.s.selectedSlot = Nil
    THEN throw(X)
    ELSE
    LET r == [svc |-> "zoho", op |-> "appointment.create",
              service_id |-> X.s.selectedService.id,
              payment_id |-> X.s.stripePaymentId, answer |-> resp]
        X2 == request(getSessionZohoToken(X), r)
    IN  IF resp = "success"
        THEN clearSession(sendWhatsApp(X2, waConfirmation(X.s)))
        ELSE sendWhatsApp(request(X2, r), waError(X.s, "bookingFailed"))
createZohoAppointment(X, resp) ==
    \* session.selectedService.id, session.selectedDate.label,
    \* session.selectedSlot.time: a TypeError when one is missing
    IF X.s.selectedService = Nil \/ X.s.selectedDate = Nil \/ X.s.selectedSlot = Nil
    THEN throw(X)
    ELSE IF ~TimeMatches(X.s.selectedSlot.time)
    THEN clearSession(sendWhatsApp(X, waError(X.s, "bookingFailed")))
    ELSE
    LET X1 == getSessionZohoToken(X)
        X2 == request(X1, [svc |-> "zoho", op |-> "appointment.create",
                           service_id |-> X.s.selectedService.id,
                           target |-> BookingTarget(X.s),
                           date |-> X.s.selectedDate.label,
                           time |-> X.s.selectedSlot.time,
                           from_time |-> fromTimeStr(X.s),
                           to_time |-> toTimeStr(X.s),
                           customer |-> <<X.s.customerName, X.s.customerEmail,
                                          X.s.customerPhone>>,
                           payment_id |-> X.s.stripePaymentId,
                           answer |-> resp])
    IN  CASE resp = "err" -> throw(X2)
          [] resp = "success" ->
                clearSession(sendWhatsApp(X2, waConfirmation(X.s)))
          [] OTHER ->
                clearSession(sendWhatsApp(X2, waError(X.s, "bookingFailed")))

\* createZohoAppointment up to `await fetch(.../appointment)`: the payload is
\* built, the token resolved and the request sent
createZohoAppointmentSent(X) ==
    request(getSessionZohoToken(X),
            [svc |-> "zoho", op |-> "appointment.create",
             service_id |-> X.s.selectedService.id,
             target |-> BookingTarget(X.s),
             date |-> X.s.selectedDate.label,
             time |-> X.s.selectedSlot.time,
             from_time |-> fromTimeStr(X.s),
             to_time |-> toTimeStr(X.s),
             customer |-> <<X.s.customerName, X.s.customerEmail, X.s.customerPhone>>,
             payment_id |-> X.s.stripePaymentId,
             answer |-> "pending"])
\* createZohoAppointment from the answer on
createZohoAppointmentAnswered(X, resp) ==
    CASE resp = "err" -> throw(X)
      [] resp = "success" -> clearSession(sendWhatsApp(X, waConfirmation(X.s)))
      [] OTHER -> clearSession(sendWhatsApp(X, waError(X.s, "bookingFailed")))

\* 13. PHONE INPUT & BOOKING
PhoneInputHandler(X, msg, link, resp) ==
    LET phone == trim(msg.text)
    IN  IF ~validatePhone(phone)
        THEN InvalidAttempt(X, "phoneAttempts", waTextPrompt(X.s, "invalidPhone"))
        ELSE
        LET X1 == set(X, "customerPhone", phone)
        IN  IF X1.s.selectedService = Nil THEN throw(X1)
            ELSE IF X1.s.selectedService.price > 0
            THEN LET X2 == createStripePaymentLink(X1, link)
                 IN  IF link = None
                     THEN clearSession(sendWhatsApp(X2, waError(X.s, "paymentLinkFailed")))
                     ELSE LET X3 == set(set(X2, "paymentUrl", link), "step", "AWAIT_PAYMENT")
                          IN  sendWhatsApp(X3, waPaymentRequired(X3.s))
            ELSE createZohoAppointment(X1, resp)

\* 14. PAYMENT CONFIRMATION CHECK (payment_done, or any text)
\* (a faulty variant that books without asking the payment processor)
PaymentUnchecked(X, msg, paid, resp) == createZohoAppointment(X, resp)
PaymentHandler(X, msg, paid, resp) ==
    IF IsButton(msg)
       \/ \E w \in {<<"p","a","i","d">>, <<"c","o","m","p","l","e","t","e","d">>,
                    <<"d","o","n","e">>} : includes(toLowerCase(trim(msg.text)), w)
    THEN LET v == verifyStripePayment(X, paid)
         IN  IF v.verified
             THEN createZohoAppointment(v.X, resp)
             ELSE sendWhatsApp(v.X, waPaymentPending(X.s))
    ELSE sendWhatsApp(X, waPaymentPending(X.s))

\* createZohoDeskTicket(session): TRUE when the sink answers with a ticket id;
\* every failure inside is caught and gives no ticket
createZohoDeskTicket(X, ticket) ==
    LET X1 == getSessionZohoToken(X)
    IN  IF X1.thrown
        THEN [X |-> [X1 EXCEPT !.thrown = FALSE], ok |-> FALSE]
        ELSE [X |-> request(X1, [svc |-> "desk", op |-> "tickets.create"]),
              ok |-> ticket = "ok"]

\* HELP FLOW: name, email, message
HelpNameHandler(X, msg) ==
    LET X1 == set(set(X, "helpName", trim(msg.text)), "step", "AWAIT_HELP_EMAIL")
    IN  sendWhatsApp(X1, waHelpText("helpEnterEmail"))

HelpEmailHandler(X, msg) ==
    LET email == trim(msg.text)
    IN  IF ~validateEmail(email)
        THEN InvalidAttempt(X, "emailAttempts", waHelpText("helpInvalidEmail"))
        ELSE LET X1 == set(set(X, "helpEmail", email), "step", "AWAIT_HELP_MESSAGE")
             IN  sendWhatsApp(X1, waHelpText("helpEnterMessage"))

HelpMessageHandler(X, msg, ticket) ==
    LET X1 == set(X, "helpMessage", trim(msg.text))
        r == createZohoDeskTicket(X1, ticket)
    IN  clearSession(sendWhatsApp(r.X, waHelpText(IF r.ok THEN "ticketCreated"
                                                          ELSE "ticketFailed")))

\* fetchZohoAppointmentsByPhone(session, phone): one fetchappointment query a
\* day from today to a week ahead, until three appointments are found; book is
\* the provider's list, answer its behaviour ("ok", or "err": a failing
\* request or a body that is no JSON).  Every failure inside is caught and
\* gives the empty list.
RECURSIVE AppointmentLoop(_, _, _, _)
AppointmentLoop(X, book, day, found) ==
    IF day > 7 \/ Len(found) >= 3
    THEN [X |-> X, found |-> found]
    ELSE LET X1 == request(X, [svc |-> "zoho", op |-> "fetchappointment", from |-> day])
             Unseen(a) == /\ a.future
                         /\ a.status \notin {"cancel", "completed"}
                         /\ \A i \in DOMAIN found : found[i].booking_id # a.booking_id
             new == SelectSeq(book, Unseen)
             found2 == FirstN(found \o new, 3)
         IN  IF Len(found2) < 3
             THEN AppointmentLoop(request(X1, [svc |-> "timer", op |-> "sleep", ms |-> 1000]),
                                  book, day + 1, found2)
             ELSE [X |-> X1, found |-> found2]

fetchZohoAppointmentsByPhone(X, book, answer) ==
    LET X1 == getSessionZohoToken(X)
    IN  IF X1.thrown
        THEN [X |-> [X1 EXCEPT !.thrown = FALSE], found |-> <<>>]
        ELSE IF answer = "err"
        THEN [X |-> request(X1, [svc |-> "zoho", op |-> "fetchappointment", from |-> 0]),
              found |-> <<>>]
        ELSE AppointmentLoop(X1, book, 0, <<>>)

\* waAppointmentList(session, appointments, page, purpose); page may be NaN
waAppointmentList(s, appointments, page, purpose) ==
    LET start == IF page = NaN THEN 0 ELSE page * APPT_PAGE_SIZE
        end == IF page = NaN THEN 0 ELSE start + APPT_PAGE_SIZE
        pageAppointments == slice(appointments, start, end)
        rows == [i \in DOMAIN pageAppointments |->
                    <<purpose, "appt", pageAppointments[i].booking_id,
                      pageAppointments[i].service_id, pageAppointments[i].staff_id>>]
    IN  Message("waAppointmentList", purpose,
                rows \o (IF page # NaN /\ Len(appointments) > end
                         THEN <<<<"show", "more", "appts", purpose, ToString(page + 1)>>>>
                         ELSE <<>>))

\* RESCHEDULE FLOW / CANCEL FLOW: Phone Input
LookupPhoneHandler(X, msg, book, answer, purpose) ==
    LET phone == trim(msg.text)
    IN  IF ~validatePhone(phone)
        THEN InvalidAttempt(X, "phoneAttempts", waTextPrompt(X.s, "invalidPhone"))
        ELSE
        LET X1 == sendWhatsApp(X, waSearchingAppointments(X.s))
            r == fetchZohoAppointmentsByPhone(X1, book, answer)
        IN  IF r.found = <<>>
            THEN set(sendWhatsApp(r.X, waError(X.s, "noAppointmentsFound")),
                     "step", "AWAIT_MAIN")
            ELSE LET X2 == set(set(r.X, "appointments", r.found), "appointmentPage", 0)
                     X3 == set(X2, "step",
                               IF purpose = "reschedule"
                               THEN "AWAIT_APPOINTMENT_LIST_RESCHEDULE"
                               ELSE "AWAIT_APPOINTMENT_LIST_CANCEL")
                 IN  sendWhatsApp(X3, waAppointmentList(X3.s, r.found, 0, purpose))

ReschedulePhoneHandler(X, msg, book, answer) ==
    LookupPhoneHandler(X, msg, book, answer, "reschedule")
CancelPhoneHandler(X, msg, book, answer) ==
    LookupPhoneHandler(X, msg, book, answer, "cancel")

\* cancelZohoAppointment(session, bookingId); resp is the scheduling service's
\* answer ("success" or "failure").  TRUE on status 200 with
\* response.status "success"; every failure inside is caught and gives FALSE
cancelZohoAppointment(X, bookingId, resp) ==
    LET X1 == getSessionZohoToken(X)
    IN  IF X1.thrown
        THEN [X |-> [X1 EXCEPT !.thrown = FALSE], success |-> FALSE]
        ELSE [X |-> request(X1, [svc |-> "zoho", op |-> "appointment.cancel",
                                 booking_id |-> bookingId, answer |-> resp]),
              success |-> resp = "success"]

\* endTime: new Date(startTime), duration minutes later, written by
\* formatZohoDateTime
endTime(startTime, service) ==
    LET day == ParseIsoDate(startTime.date)
    IN  IF day = NaN THEN InvalidDateTime
        ELSE DateTime(day, startTime.hour * 60 + ParseNum(startTime.minute)
                           + serviceDuration(service))
\* rescheduleZohoAppointment(session, bookingId, staffId, startTime)
rescheduleZohoAppointment(X, bookingId, staffId, startTime, resp) ==
    LET X1 == getSessionZohoToken(X)
    IN  IF X1.thrown
        THEN [X |-> [X1 EXCEPT !.thrown = FALSE], success |-> FALSE]
        ELSE [X |-> request(X1, [svc |-> "zoho", op |-> "reschedulebooking",
                                 booking_id |-> bookingId, staff_id |-> staffId,
                                 start_time |-> startTime,
                                 end_time |-> endTime(startTime, X.s.selectedService),
                                 answer |-> resp]),
              success |-> resp = "success"]

\* findNextAvailableSlots.  The state of its while loop is a record st: the
\* context X, currentDate, the page slots collected so far and slotCounter.
\* TakeSlots is an iteration from the point where the session (of context X)
\* holds the slots of currentDate: the for loop over the remaining slots, and
\* the move to the next date when none is left.
\* (a faulty variant that adds every remaining slot of the day, whatever the limit)
TakeSlotsWhole(X, st, limit) ==
    LET dateStr == formatDateForZoho(st.currentDate)
        all == X.s.allSlotsForCurrentDate
        startIndex == OrZero(X.s.currentDateSlotIndex)
        remainingSlots == slice(all, startIndex, Len(all))
        room == limit - Len(st.slots)
        taken == Len(remainingSlots)
        added == [i \in 1..taken |->
                     [id |-> <<"slot", ToString(st.slotCounter + i - 1), dateStr,
                               TimeToken(remainingSlots[i])>>,
                      date |-> dateStr,
                      time |-> remainingSlots[i]]]
        X2 == IF taken > 0 THEN set(X, "currentDateSlotIndex", startIndex + taken) ELSE X
    IN  IF OrZero(X2.s.currentDateSlotIndex) >= Len(all)
        THEN \* shown all slots for this date, move to next date
             [X |-> set(set(set(X2, "allSlotsForCurrentDate", Nil),
                            "currentDateSlotIndex", 0),
                        "currentSlotDate", st.currentDate + 1),
              currentDate |-> st.currentDate + 1,
              slots |-> st.slots \o added, slotCounter |-> st.slotCounter + taken]
        ELSE [X |-> X2, currentDate |-> st.currentDate,
              slots |-> st.slots \o added, slotCounter |-> st.slotCounter + taken]
TakeSlots(X, st, limit) ==
    LET dateStr == formatDateForZoho(st.currentDate)
        all == X.s.allSlotsForCurrentDate
        startIndex == OrZero(X.s.currentDateSlotIndex)
        remainingSlots == slice(all, startIndex, Len(all))
        room == limit - Len(st.slots)
        taken == IF Len(remainingSlots) < room THEN Len(remainingSlots) ELSE room
        added == [i \in 1..taken |->
                     [id |-> <<"slot", ToString(st.slotCounter + i - 1), dateStr,
                               TimeToken(remainingSlots[i])>>,
                      date |-> dateStr,
                      time |-> remainingSlots[i]]]
        X2 == IF taken > 0 THEN set(X, "currentDateSlotIndex", startIndex + taken) ELSE X
    IN  IF OrZero(X2.s.currentDateSlotIndex) >= Len(all)
        THEN \* shown all slots for this date, move to next date
             [X |-> set(set(set(X2, "allSlotsForCurrentDate", Nil),
                            "currentDateSlotIndex", 0),
                        "currentSlotDate", st.currentDate + 1),
              currentDate |-> st.currentDate + 1,
              slots |-> st.slots \o added, slotCounter |-> st.slotCounter + taken]
        ELSE [X |-> X2, currentDate |-> st.currentDate,
              slots |-> st.slots \o added, slotCounter |-> st.slotCounter + taken]

\* the iteration after the slots of currentDate were fetched; r is what
\* fetchZoho gave
FetchedSlots(r, st, limit) ==
    IF r.X.thrown THEN [st EXCEPT !.X = r.X]
    ELSE IF r.data = Nil \/ Len(r.data) = 0
    THEN \* no slots for this date, move to next day
         [st EXCEPT !.X = set(set(set(r.X, "allSlotsForCurrentDate", Nil),
                                  "currentSlotDate", st.currentDate + 1),
                              "currentDateSlotIndex", 0),
                    !.currentDate = @ + 1]
    ELSE TakeSlots(set(set(set(r.X, "allSlotsForCurrentDate", r.data),
                           "currentSlotDate", st.currentDate),
                       "currentDateSlotIndex", 0),
                   st, limit)

\* one iteration: the slots of currentDate are fetched when the session does
\* not hold them
\*   session.currentSlotDate !== dateStr || !session.allSlotsForCurrentDate
\* (a faulty variant that fetches the day whether or not the session holds it)
ScanDayNoCache(st, cal, limit) ==
    FetchedSlots(fetchZoho(st.X, SlotQuery(st.X.s, formatDateForZoho(st.currentDate)),
                           Cal(cal, st.currentDate), FETCH_RETRIES),
                 st, limit)
ScanDay(st, cal, limit) ==
    IF \/ st.X.s.currentSlotDate # st.currentDate
       \/ st.X.s.allSlotsForCurrentDate = Nil
    THEN FetchedSlots(fetchZoho(st.X, SlotQuery(st.X.s, formatDateForZoho(st.currentDate)),
                                Cal(cal, st.currentDate), FETCH_RETRIES),
                      st, limit)
    ELSE TakeSlots(st.X, st, limit)

\* a date that new Date() can compare: neither undefined nor Invalid Date
ValidDay(d) == d # NoNum /\ d # NaN

\* while (slots.length < limit && currentDate <= endDate), and the return
\* (a faulty variant whose loop runs one day past endDate)
RECURSIVE ScanSlotsLate(_, _, _, _)
ScanSlotsLate(st, cal, endDate, limit) ==
    IF \/ st.X.thrown
       \/ ~(Len(st.slots) < limit)
       \/ ~(ValidDay(st.currentDate) /\ ValidDay(endDate) /\ st.currentDate <= endDate + 1)
    THEN [X |-> st.X, slots |-> st.slots, nextSearchDate |-> st.currentDate,
          hasMore |-> Len(st.slots) = limit]
    ELSE ScanSlotsLate(ScanDay(st, cal, limit), cal, endDate, limit)
RECURSIVE ScanSlots(_, _, _, _)
ScanSlots(st, cal, endDate, limit) ==
    IF \/ st.X.thrown
       \/ ~(Len(st.slots) < limit)
       \/ ~(ValidDay(st.currentDate) /\ ValidDay(endDate) /\ st.currentDate <= endDate)
    THEN [X |-> st.X, slots |-> st.slots, nextSearchDate |-> st.currentDate,
          hasMore |-> Len(st.slots) = limit]
    ELSE ScanSlots(ScanDay(st, cal, limit), cal, endDate, limit)

\* findNextAvailableSlots(session, startDate, limit, maxDaysToScan)
\* (a faulty variant that forgets the cursor and scans from startDate again)
findNextAvailableSlotsRescan(X, cal, startDate, limit, maxDaysToScan) ==
    ScanSlots([X |-> set(set(set(X, "currentSlotDate", startDate),
                             "currentDateSlotIndex", 0),
                         "allSlotsForCurrentDate", Nil),
               currentDate |-> startDate, slots |-> <<>>, slotCounter |-> 0],
              cal, startDate + maxDaysToScan, limit)
findNextAvailableSlots(X, cal, startDate, limit, maxDaysToScan) ==
    \* session.selectedService.id
    IF X.s.selectedService = Nil
    THEN [X |-> throw(X), slots |-> <<>>, nextSearchDate |-> startDate, hasMore |-> FALSE]
    ELSE
    LET \* if (!session.currentSlotDate)
        X1 == IF X.s.currentSlotDate = NoNum
              THEN set(set(set(X, "currentSlotDate",
                               IF ValidDay(startDate) THEN startDate ELSE NaN),
                           "currentDateSlotIndex", 0),
                       "allSlotsForCurrentDate", Nil)
              ELSE X
    IN  \* if (session.currentSlotDate): start from the stored date
        ScanSlots([X |-> X1, currentDate |-> X1.s.currentSlotDate,
                   slots |-> <<>>, slotCounter |-> 0],
                  cal,
                  IF ValidDay(startDate) THEN startDate + maxDaysToScan ELSE NaN,
                  limit)

\* replyId.split("_appt_"): the positions of an inner "appt" token
ApptMarks(id) == {i \in 2..(Len(id) - 1) : id[i] = "appt"}

\* parseInt(token)
ParseInt(tok) ==
    IF \E n \in 0..9 : ToString(n) = tok
    THEN CHOOSE n \in 0..9 : ToString(n) = tok
    ELSE NaN

\* the first slot page of a reschedule flow, and every further one
ReschedulePage(X, cal, startDate, emptyKey) ==
    LET f == findNextAvailableSlots(X, cal, startDate, SCAN_LIMIT, MAX_DAYS_TO_SCAN)
    IN  IF Len(f.slots) = 0
        THEN set(sendWhatsApp(f.X, waError(X.s, emptyKey)), "step", "AWAIT_MAIN")
        ELSE LET X1 == set(f.X, "searchStartDate", f.nextSearchDate)
             IN  sendWhatsApp(X1, waSlotListWithShowMore(X1.s, f.slots, TRUE))

\* APPOINTMENT SELECTION (for reschedule/cancel), when it returns
AppointmentSelectionHandler(X, msg, services, cal, resp) ==
    LET replyId == msg.list
    IN  IF Len(replyId) >= 4 /\ SubSeq(replyId, 1, 3) = <<"show", "more", "appts">>
        THEN LET purpose == replyId[4]
                 page == IF Len(replyId) >= 5 THEN ParseInt(replyId[5]) ELSE NaN
                 X1 == set(X, "appointmentPage", page)
             IN  sendWhatsApp(X1, waAppointmentList(X1.s, X1.s.appointments, page, purpose))
        ELSE IF Cardinality(ApptMarks(replyId)) # 1
        THEN sendWhatsApp(X, waError(X.s, "invalidSlot"))
        ELSE
        LET mark == CHOOSE i \in ApptMarks(replyId) : TRUE
            purpose == Join(SubSeq(replyId, 1, mark - 1))
            ids == SubSeq(replyId, mark + 1, Len(replyId))
        IN  IF Len(ids) < 3
            THEN sendWhatsApp(X, waError(X.s, "invalidSlot"))
            ELSE
            LET booking_id == ids[1]
                service_id == ids[2]
                staff_id == ids[3]
            IN  IF purpose = "cancel"
                THEN LET c == cancelZohoAppointment(X, booking_id, resp)
                     IN  IF c.success
                         THEN sendWhatsApp(set(c.X, "step", "AWAIT_MAIN"),
                                           waSuccessMessage(X.s, "cancelSuccess"))
                         ELSE sendWhatsApp(c.X, waError(X.s, "cancelFailed"))
                ELSE \* purpose === "reschedule"
                LET r == fetchZoho(X, "services", services, FETCH_RETRIES)
                    list == IF r.data = Nil THEN <<>> ELSE r.data
                    service == Find(list, service_id)
                IN  IF r.X.thrown THEN r.X
                    ELSE IF service = Nil
                    THEN sendWhatsApp(r.X, waError(X.s, "invalidService"))
                    ELSE
                    LET collective == service.service_type \in {"COLLECTIVE", "GROUP"}
                        X1 == set(r.X, "rescheduleData",
                                  [booking_id |-> booking_id, service_id |-> service_id,
                                   staff_id |-> staff_id])
                        X2 == set(X1, "selectedService", service)
                        X3 == IF collective
                              THEN set(set(X2, "selectedGroup",
                                           IF Len(service.assigned_groups) > 0
                                           THEN service.assigned_groups[1].id
                                           ELSE staff_id),
                                       "selectedStaff", None)
                              ELSE set(set(X2, "selectedStaff", staff_id),
                                       "selectedGroup", None)
                        X4 == set(X3, "step", "AWAIT_RESCHEDULE_SLOT")
                        X5 == sendWhatsApp(X4, waSearchingMessage(X.s))
                    IN  ReschedulePage(X5, cal, 0, "noSlotsAvailable")
                \* any other purpose: no return, the dispatch goes on

\* the times a "-"-joined token can spell: hh-mm, hh-mm-AM, hh-mm-PM
Hours == 0..23
Minutes == {"00", "30"}
KnownTimes == {Time(Pad2(h), m, ap) : h \in Hours, m \in Minutes, ap \in {"", "AM", "PM"}}

\* timeStr.match(/(\d{1,2}):(\d{2})(?:\s*(AM|PM))?/i) on
\* parts.slice(3).join(" ").replace(/-/g, ":"): the leftmost token that spells a
\* time gives the hour and the minute; the AM/PM of the same token follows a
\* ":" and is not matched, one in the next token is
timeMatch(tokens) ==
    LET Spells(tok) == \E tm \in KnownTimes : TimeToken(tm) = tok
        hits == {i \in DOMAIN tokens : Spells(tokens[i])}
    IN  IF hits = {} THEN Nil
        ELSE LET i == CHOOSE k \in hits : \A j \in hits : k <= j
                 tm == CHOOSE x \in KnownTimes : TimeToken(x) = tokens[i]
                 ampm == IF tm.ap = "" /\ i < Len(tokens) /\ tokens[i + 1] \in {"AM", "PM"}
                         THEN tokens[i + 1] ELSE None
             IN  [hh |-> CHOOSE h \in Hours : Pad2(h) = tm.hh, mm |-> tm.mm, ampm |-> ampm]

\* RESCHEDULE SLOT SELECTION
RescheduleSlotHandler(X, msg, cal, resp) ==
    LET slotId == msg.list
    IN  IF slotId = <<"show", "more", "slots">>
        THEN LET X1 == sendWhatsApp(X, waSearchingMessage(X.s))
             IN  ReschedulePage(X1, cal, X.s.searchStartDate, "noMoreSlots")
        ELSE IF Len(slotId) < 4
        THEN sendWhatsApp(X, waError(X.s, "invalidSlot"))
        ELSE
        LET dateStr == slotId[3]
            m == timeMatch(SubSeq(slotId, 4, Len(slotId)))
        IN  \* timeMatch[1] of null, session.rescheduleData.booking_id of undefined
            IF m = Nil \/ X.s.rescheduleData = Nil THEN throw(X)
            ELSE
            LET hour == CASE m.ampm = "PM" /\ m.hh < 12 -> m.hh + 12
                          [] m.ampm = "AM" /\ m.hh = 12 -> 0
                          [] OTHER -> m.hh
                startTime == [date |-> isoDate(dateStr), hour |-> hour, minute |-> m.mm]
                r == rescheduleZohoAppointment(X, X.s.rescheduleData.booking_id,
                                               X.s.rescheduleData.staff_id, startTime, resp)
            IN  clearSession(sendWhatsApp(r.X,
                    IF r.success THEN waSuccessMessage(X.s, "rescheduleSuccess")
                    ELSE waError(X.s, "rescheduleFailed")))

\* FALLBACK
\* (a faulty variant that drops the selected service)
FallbackReset(X, msg) ==
    sendWhatsApp(set(set(X, "step", "AWAIT_MAIN"), "selectedService", Nil),
                 waMainMenu(X.s))
FallbackHandler(X, msg) ==
    sendWhatsApp(set(X, "step", "AWAIT_MAIN"), waMainMenu(X.s))

\* the purpose an appointment row id carries, None when it is no such id
Purpose(id) ==
    IF Cardinality(ApptMarks(id)) = 1 /\ Len(id) - (CHOOSE i \in ApptMarks(id) : TRUE) >= 3
    THEN Join(SubSeq(id, 1, (CHOOSE i \in ApptMarks(id) : TRUE) - 1))
    ELSE None

\* The dispatch of app.post("/webhook"): the handler that returns the answer
\* to msg for the session s, by the order of the if-blocks
Route(s, msg) ==
    CASE s.language = None -> "language"
      [] s.step = "INIT" -> "menu"
      [] s.step = "AWAIT_MAIN" /\ IsButton(msg)
         /\ msg.button \in {"my_bookings_btn", "help_btn"} -> "mainButtons"
      [] s.step = "AWAIT_BOOKING_MENU" /\ IsButton(msg)
         /\ msg.button \in {"book_new_btn", "reschedule_btn", "cancel_btn"} -> "bookingButtons"
      [] s.step = "AWAIT_HELP" /\ IsButton(msg) /\ msg.button = "home_btn" -> "menu"
      [] IsButton(msg) /\ msg.button = "try_again" -> "menu"
      [] s.step = "AWAIT_SERVICE" /\ IsList(msg) -> "service"
      [] s.step = "AWAIT_STAFF" /\ IsList(msg) -> "staff"
      [] s.step = "AWAIT_MONTH" /\ IsList(msg) -> "month"
      [] s.step = "AWAIT_DATE" /\ IsList(msg) -> "date"
      [] s.step = "AWAIT_SLOT" /\ IsList(msg) -> "slot"
      [] s.step = "AWAIT_NAME" /\ IsText(msg) -> "name"
      [] s.step = "AWAIT_EMAIL" /\ IsText(msg) -> "email"
      [] s.step = "AWAIT_PHONE" /\ IsText(msg) -> "phone"
      [] s.step = "AWAIT_PAYMENT"
         /\ (IsText(msg) \/ (IsButton(msg) /\ msg.button = "payment_done")) -> "payment"
      [] s.step = "AWAIT_HELP_NAME" /\ IsText(msg) -> "helpName"
      [] s.step = "AWAIT_HELP_EMAIL" /\ IsText(msg) -> "helpEmail"
      [] s.step = "AWAIT_HELP_MESSAGE" /\ IsText(msg) -> "helpMessage"
      [] s.step = "AWAIT_RESCHEDULE_PHONE" /\ IsText(msg) -> "reschedulePhone"
      [] s.step = "AWAIT_CANCEL_PHONE" /\ IsText(msg) -> "cancelPhone"
      [] s.step \in {"AWAIT_APPOINTMENT_LIST_RESCHEDULE", "AWAIT_APPOINTMENT_LIST_CANCEL"}
         /\ IsList(msg)
         /\ (\/ (Len(msg.list) >= 4 /\ SubSeq(msg.list, 1, 3) = <<"show", "more", "appts">>)
             \/ Purpose(msg.list) \in {None, "cancel", "reschedule"}) -> "appointment"
      [] s.step = "AWAIT_RESCHEDULE_SLOT" /\ IsList(msg) -> "rescheduleSlot"
      [] OTHER -> "fallback"

(***************************************************************************)
(* The environment: inbound events and the answers of the services         *)
(***************************************************************************)
MsgIds == {"wamid.1", "wamid.2"}
\* what a user types: at a step that asks for a phone number a blank or a
\* number, at the payment step a blank or "paid", elsewhere a blank or an address
Texts(step) ==
    CASE step \in {"AWAIT_PHONE", "AWAIT_RESCHEDULE_PHONE", "AWAIT_CANCEL_PHONE"} ->
            {<<" ">>, <<"9","8","7","6","5","4","3","2","1","0">>}
      [] step = "AWAIT_PAYMENT" -> {<<" ">>, <<"p","a","i","d">>}
      [] OTHER -> {<<" ">>, <<"a","@","b",".","c","o">>}

\* the buttons a user presses: those of the menu on the screen, and the
\* try_again button of an earlier error message
Buttons(step) ==
    {"try_again"} \cup
    CASE step = "AWAIT_MAIN" -> {"my_bookings_btn", "help_btn"}
      [] step = "AWAIT_BOOKING_MENU" -> {"book_new_btn", "reschedule_btn", "cancel_btn"}
      [] step = "AWAIT_PAYMENT" -> {"payment_done"}
      [] OTHER -> {}
\* the rows a user picks from: rows of the list the step has put on the screen
ListIds(step) ==
    CASE step = "AWAIT_SERVICE" -> {<<"svcA">>, <<"svcG">>}
      [] step = "AWAIT_STAFF" -> {<<"staff", "st1">>}
      [] step = "AWAIT_MONTH" -> {MonthIds[1]}
      [] step = "AWAIT_DATE" -> {<<"date", formatDateForZoho(0)>>}
      [] step = "AWAIT_SLOT" ->
            {<<"slot", formatDateForZoho(0), TimeToken(DaySlot(1)), "0">>}
      [] step \in {"AWAIT_APPOINTMENT_LIST_RESCHEDULE", "AWAIT_APPOINTMENT_LIST_CANCEL"} ->
            {<<"cancel", "appt", "b1", "svcA", "st1">>,
             <<"reschedule", "appt", "b1", "svcA", "st1">>}
      [] step = "AWAIT_RESCHEDULE_SLOT" ->
            {<<"slot", "0", formatDateForZoho(0), TimeToken(DaySlot(1))>>,
             <<"show", "more", "slots">>}
      [] OTHER -> {<<"lang", "en">>}

\* the events that can arrive while the session is at a step
Msgs(step) ==
    {TextMsg(i, b) : i \in MsgIds, b \in Texts(step)}
    \cup {ButtonMsg(i, b) : i \in MsgIds, b \in Buttons(step)}
    \cup {ListMsg(i, l) : i \in MsgIds, l \in ListIds(step)}
    \cup {ImageMsg(i) : i \in MsgIds}

\* the scheduling service during one event (the outcomes of the coming
\* attempts) and the identity provider during the same event
Nets == {[script |-> <<>>, idp |-> "ok"],
         [script |-> <<"err", "err", "err", "err">>, idp |-> "ok"],
         [script |-> <<"429">>, idp |-> "ok"],
         [script |-> <<"nonjson">>, idp |-> "ok"]}
Responses == {"success", "failure", "err"}
Links == {"url", None}

(***************************************************************************)
(* One inbound event                                                       *)
(***************************************************************************)
\* const session = getSession(from)
Fresh == Expired(sessions, now)
Arrived == getSession(sessions, now, uuid + 1)

\* Idempotency: session.lastMsgId === msgId
\* (two variants for comparison: no check at all, and a check against every
\* id the session has processed)
IsDuplicateNever(s, msg) == FALSE
IsDuplicateSeen(s, msg) == ~Fresh /\ msg.id \in processed
IsDuplicate(s, msg) == s.lastMsgId = msg.id

\* the event passes the idempotency check and is answered by handler h
Handles(msg, h) ==
    /\ Fresh => uuid < MaxSessions
    /\ ~IsDuplicate(Arrived, msg)
    /\ Route(Arrived, msg) = h

\* (mutant) the id is not recorded before the handler suspends
BeginLate(msg, net) ==
    Ctx(Arrived, now, net.script, net.idp)

\* the context at the first if-block: session.lastMsgId = msgId
Begin(msg, net) ==
    Ctx([Arrived EXCEPT !.lastMsgId = msg.id], now, net.script, net.idp)
Quiet == [script |-> <<>>, idp |-> "ok"]

\* a submission the stage of handler h rejects: an invalid name, address or
\* number, or anything but a list reply while the language is awaited
InvalidSubmission(h, msg) ==
    \/ h = "name" /\ ~validName(trim(msg.text))
    \/ h \in {"email", "helpEmail"} /\ ~validateEmail(trim(msg.text))
    \/ h \in {"phone", "reschedulePhone", "cancelPhone"} /\ ~validatePhone(trim(msg.text))
    \/ h = "language" /\ Arrived.step = "AWAIT_LANGUAGE" /\ ~IsList(msg)

\* the handler returned (or threw into the catch block, which answers 500)
Finish(msg, h, X) ==
    /\ sessions' = IF X.stored THEN [u \in {User} |-> X.s] ELSE <<>>
    /\ uuid' = IF Fresh THEN uuid + 1 ELSE uuid
    /\ ev' = [type |-> "message", id |-> msg.id, handler |-> h, fresh |-> Fresh,
              seen |-> ~Fresh /\ msg.id \in processed]
    /\ sent' = X.sent
    /\ reqs' = X.reqs
    /\ httpStatus' = IF X.thrown THEN 500 ELSE 200
    /\ invalidRun' = IF ~InvalidSubmission(h, msg) THEN 0
                     ELSE IF Fresh THEN 1
                     ELSE IF invalidRun > MAX_ATTEMPTS THEN invalidRun
                     ELSE invalidRun + 1
    /\ processed' = (IF Fresh THEN {} ELSE processed) \cup {msg.id}
    /\ UNCHANGED <<now, inflight, unit>>

\* if (!value?.messages?.length) return res.sendStatus(200)
NoMessages ==
    /\ ev' = [type |-> "empty"]
    /\ sent' = <<>>
    /\ reqs' = <<>>
    /\ httpStatus' = 200
    /\ UNCHANGED <<sessions, now, uuid, invalidRun, processed, inflight, unit>>

\* if (session.lastMsgId === msgId) return res.sendStatus(200)
Duplicate ==
    \E msg \in Msgs(Arrived.step) :
        /\ Fresh => uuid < MaxSessions
        /\ IsDuplicate(Arrived, msg)
        /\ sessions' = [u \in {User} |-> Arrived]
        /\ uuid' = IF Fresh THEN uuid + 1 ELSE uuid
        /\ ev' = [type |-> "message", id |-> msg.id, handler |-> "duplicate",
                  fresh |-> Fresh, seen |-> ~Fresh /\ msg.id \in processed]
        /\ sent' = <<>>
        /\ reqs' = <<>>
        /\ httpStatus' = 200
        /\ UNCHANGED <<now, invalidRun, processed, inflight, unit>>

LanguageSelection ==
    \E msg \in Msgs(Arrived.step) :
        /\ Handles(msg, "language")
        /\ Finish(msg, "language", LanguageSelectionHandler(Begin(msg, Quiet), msg))

MainMenu ==
    \E msg \in Msgs(Arrived.step) :
        /\ Handles(msg, "menu")
        /\ Finish(msg, "menu", MainMenuHandler(Begin(msg, Quiet), msg))

MainMenuButtons ==
    \E msg \in Msgs(Arrived.step) :
        /\ Handles(msg, "mainButtons")
        /\ Finish(msg, "mainButtons", MainMenuButtonsHandler(Begin(msg, Quiet), msg))

BookingMenuButtons ==
    \E msg \in Msgs(Arrived.step) :
        /\ Handles(msg, "bookingButtons")
        /\ \E net \in Nets, services \in {Catalog, <<>>} :
            Finish(msg, "bookingButtons",
                  BookingMenuButtonsHandler(Begin(msg, net), msg, services))

ServiceSelection ==
    \E msg \in Msgs(Arrived.step) :
        /\ Handles(msg, "service")
        /\ \E net \in Nets :
            Finish(msg, "service",
                  ServiceSelectionHandler(Begin(msg, net), msg, StaffDirectory))

StaffSelection ==
    \E msg \in Msgs(Arrived.step) :
        /\ Handles(msg, "staff")
        /\ Finish(msg, "staff", StaffSelectionHandler(Begin(msg, Quiet), msg))

MonthSelection ==
    \E msg \in Msgs(Arrived.step) :
        /\ Handles(msg, "month")
        /\ \E net \in Nets, cal \in Calendars :
            Finish(msg, "month", MonthSelectionHandler(Begin(msg, net), msg, cal))

DateSelection ==
    \E msg \in Msgs(Arrived.step) :
        /\ Handles(msg, "date")
        /\ \E net \in Nets, cal \in Calendars :
            Finish(msg, "date", DateSelectionHandler(Begin(msg, net), msg, cal))

SlotSelection ==
    \E msg \in Msgs(Arrived.step) :
        /\ Handles(msg, "slot")
        /\ Finish(msg, "slot", SlotSelectionHandler(Begin(msg, Quiet), msg))

\* a row of a list sent earlier in the conversation (the language list) is
\* tapped at a step whose handler looks the row up in the list on the screen
StaleRows == {ListMsg(i, <<"lang", "en">>) : i \in MsgIds}
StaleSelection ==
    \E msg \in StaleRows :
        \/ /\ Handles(msg, "service")
           /\ Finish(msg, "service",
                     ServiceSelectionHandler(Begin(msg, Quiet), msg, StaffDirectory))
        \/ /\ Handles(msg, "staff")
           /\ Finish(msg, "staff", StaffSelectionHandler(Begin(msg, Quiet), msg))
        \/ /\ Handles(msg, "month")
           /\ Finish(msg, "month", MonthSelectionHandler(Begin(msg, Quiet), msg, "none"))
        \/ /\ Handles(msg, "date")
           /\ Finish(msg, "date", DateSelectionHandler(Begin(msg, Quiet), msg, "none"))
        \/ /\ Handles(msg, "slot")
           /\ Finish(msg, "slot", SlotSelectionHandler(Begin(msg, Quiet), msg))

\* a validation stage takes a submission (Valid) or rejects it
Valid(h, msg) == ~InvalidSubmission(h, msg)

NameInput ==
    \E msg \in Msgs(Arrived.step) :
        /\ Handles(msg, "name")
        /\ Valid("name", msg)
        /\ Finish(msg, "name", NameInputHandler(Begin(msg, Quiet), msg))

NameRejected ==
    \E msg \in Msgs(Arrived.step) :
        /\ Handles(msg, "name")
        /\ InvalidSubmission("name", msg)
        /\ Finish(msg, "name", NameInputHandler(Begin(msg, Quiet), msg))

EmailInput ==
    \E msg \in Msgs(Arrived.step) :
        /\ Handles(msg, "email")
        /\ Valid("email", msg)
        /\ Finish(msg, "email", EmailInputHandler(Begin(msg, Quiet), msg))

EmailRejected ==
    \E msg \in Msgs(Arrived.step) :
        /\ Handles(msg, "email")
        /\ InvalidSubmission("email", msg)
        /\ Finish(msg, "email", EmailInputHandler(Begin(msg, Quiet), msg))

PhoneInput ==
    \E msg \in Msgs(Arrived.step) :
        /\ Handles(msg, "phone")
        /\ Valid("phone", msg)
        /\ \E link \in Links, resp \in Responses :
            Finish(msg, "phone", PhoneInputHandler(Begin(msg, Quiet), msg, link, resp))

PhoneRejected ==
    \E msg \in Msgs(Arrived.step) :
        /\ Handles(msg, "phone")
        /\ InvalidSubmission("phone", msg)
        /\ Finish(msg, "phone", PhoneInputHandler(Begin(msg, Quiet), msg, None, "err"))

PaymentCheck ==
    \E msg \in Msgs(Arrived.step) :
        /\ Handles(msg, "payment")
        /\ \E paid \in BOOLEAN, resp \in Responses :
            Finish(msg, "payment", PaymentHandler(Begin(msg, Quiet), msg, paid, resp))

HelpName ==
    \E msg \in Msgs(Arrived.step) :
        /\ Handles(msg, "helpName")
        /\ Finish(msg, "helpName", HelpNameHandler(Begin(msg, Quiet), msg))

HelpEmail ==
    \E msg \in Msgs(Arrived.step) :
        /\ Handles(msg, "helpEmail")
        /\ Valid("helpEmail", msg)
        /\ Finish(msg, "helpEmail", HelpEmailHandler(Begin(msg, Quiet), msg))

HelpEmailRejected ==
    \E msg \in Msgs(Arrived.step) :
        /\ Handles(msg, "helpEmail")
        /\ InvalidSubmission("helpEmail", msg)
        /\ Finish(msg, "helpEmail", HelpEmailHandler(Begin(msg, Quiet), msg))

HelpMessage ==
    \E msg \in Msgs(Arrived.step) :
        /\ Handles(msg, "helpMessage")
        /\ \E ticket \in {"ok", "refused"} :
            Finish(msg, "helpMessage", HelpMessageHandler(Begin(msg, Quiet), msg, ticket))

ReschedulePhone ==
    \E msg \in Msgs(Arrived.step) :
        /\ Handles(msg, "reschedulePhone")
        /\ Valid("reschedulePhone", msg)
        /\ \E book \in Books, answer \in {"ok", "err"} :
            Finish(msg, "reschedulePhone",
                   ReschedulePhoneHandler(Begin(msg, Quiet), msg, book, answer))

ReschedulePhoneRejected ==
    \E msg \in Msgs(Arrived.step) :
        /\ Handles(msg, "reschedulePhone")
        /\ InvalidSubmission("reschedulePhone", msg)
        /\ Finish(msg, "reschedulePhone",
                  ReschedulePhoneHandler(Begin(msg, Quiet), msg, <<>>, "err"))

CancelPhone ==
    \E msg \in Msgs(Arrived.step) :
        /\ Handles(msg, "cancelPhone")
        /\ Valid("cancelPhone", msg)
        /\ \E book \in Books, answer \in {"ok", "err"} :
            Finish(msg, "cancelPhone",
                   CancelPhoneHandler(Begin(msg, Quiet), msg, book, answer))

CancelPhoneRejected ==
    \E msg \in Msgs(Arrived.step) :
        /\ Handles(msg, "cancelPhone")
        /\ InvalidSubmission("cancelPhone", msg)
        /\ Finish(msg, "cancelPhone",
                  CancelPhoneHandler(Begin(msg, Quiet), msg, <<>>, "err"))

\* what the services do during an event of the reschedule and cancel flows:
\* the answer to the command when the event issues one, the outcomes of the
\* fetches and the calendar when it looks for slots
ManageEnvs(command) ==
    IF command
    THEN {[net |-> Quiet, cal |-> "brief", resp |-> r] : r \in {"success", "failure"}}
    ELSE {[net |-> n, cal |-> c, resp |-> "success"] : n \in Nets, c \in Calendars}

AppointmentSelection ==
    \E msg \in Msgs(Arrived.step) :
        /\ Handles(msg, "appointment")
        /\ \E env \in ManageEnvs(Purpose(msg.list) = "cancel") :
            Finish(msg, "appointment",
                   AppointmentSelectionHandler(Begin(msg, env.net), msg, Catalog,
                                               env.cal, env.resp))

RescheduleSlotSelection ==
    \E msg \in Msgs(Arrived.step) :
        /\ Handles(msg, "rescheduleSlot")
        /\ \E env \in ManageEnvs(msg.list # <<"show", "more", "slots">>) :
            Finish(msg, "rescheduleSlot",
                   RescheduleSlotHandler(Begin(msg, env.net), msg, env.cal, env.resp))

\* a list row that no slot page of the reschedule flow carries is tapped while
\* a reschedule slot is awaited: a row of the language list, of the slot list
\* of the booking flow or of the appointment list, and a slot row with a day
\* the provider never offered
UnofferedRows ==
    {<<"lang", "en">>,
     <<"slot", formatDateForZoho(0), TimeToken(DaySlot(1)), "0">>,
     <<"cancel", "appt", "b1", "svcA", "st1">>,
     <<"slot", "0", formatDateForZoho(5), TimeToken(DaySlot(5))>>}
StaleRescheduleSlot ==
    \E i \in MsgIds, l \in UnofferedRows :
        LET msg == ListMsg(i, l)
        IN  /\ Handles(msg, "rescheduleSlot")
            /\ \E env \in ManageEnvs(TRUE) :
                Finish(msg, "rescheduleSlot",
                       RescheduleSlotHandler(Begin(msg, env.net), msg, env.cal, env.resp))

Fallback ==
    \E msg \in Msgs(Arrived.step) :
        /\ Handles(msg, "fallback")
        /\ Finish(msg, "fallback", FallbackHandler(Begin(msg, Quiet), msg))

\* 13. PHONE INPUT & BOOKING of a service without a price, as the event loop
\* runs it: the handler runs up to `await fetch(.../appointment)` and is
\* suspended there; the webhook takes other events until the answer arrives
PhoneBooking ==
    \E msg \in Msgs(Arrived.step) :
        /\ Handles(msg, "phone")
        /\ Valid("phone", msg)
        /\ Arrived.selectedService # Nil
        /\ Arrived.selectedDate # Nil
        /\ Arrived.selectedSlot # Nil
        /\ Arrived.selectedService.price = 0
        /\ Cardinality(inflight) < MaxInFlight
        /\ LET X == createZohoAppointmentSent(
                        set(Begin(msg, Quiet), "customerPhone", trim(msg.text)))
           IN  /\ sessions' = [u \in {User} |-> X.s]
               /\ inflight' = inflight \cup {[id |-> msg.id, session |-> X.s]}
               /\ ev' = [type |-> "message", id |-> msg.id, handler |-> "phone",
                         fresh |-> Fresh, seen |-> ~Fresh /\ msg.id \in processed]
               /\ sent' = X.sent
               /\ reqs' = X.reqs
               /\ invalidRun' = 0
               /\ processed' = processed \cup {msg.id}
               /\ UNCHANGED <<now, uuid, httpStatus, unit>>

\* the answer to a creation request arrives and the suspended handler goes on:
\* it works on the session object it holds, which is the stored one unless
\* the store has dropped or replaced it, and clearSession deletes whatever
\* the store holds for the user
PhoneBookingAnswered ==
    \E h \in inflight, resp \in Responses :
        LET held == IF Has /\ Stored.id = h.session.id THEN Stored ELSE h.session
            X == createZohoAppointmentAnswered(Ctx(held, now, <<>>, "ok"), resp)
        IN  /\ sessions' = IF X.stored THEN sessions ELSE <<>>
            /\ inflight' = inflight \ {h}
            /\ ev' = [type |-> "resumed", id |-> h.id]
            /\ sent' = X.sent
            /\ reqs' = <<>>
            /\ httpStatus' = IF X.thrown THEN 500 ELSE 200
            /\ UNCHANGED <<now, uuid, invalidRun, processed, unit>>

\* time passes between two events
Tick ==
    \E d \in {SESSION_TTL, SESSION_TTL + 1} :
        /\ now + d <= MaxTime
        /\ now' = now + d
        /\ ev' = [type |-> "tick"]
        /\ UNCHANGED <<sessions, uuid, sent, reqs, httpStatus, invalidRun, processed,
                       inflight, unit>>

Init ==
    /\ sessions = <<>>
    /\ now = 0
    /\ uuid = 0
    /\ ev = [type |-> "none"]
    /\ sent = <<>>
    /\ reqs = <<>>
    /\ httpStatus = 200
    /\ invalidRun = 0
    /\ processed = {}
    /\ inflight = {}
    /\ unit = [fn |-> "none"]

Next ==
    \/ NoMessages
    \/ Duplicate
    \/ LanguageSelection
    \/ MainMenu
    \/ MainMenuButtons
    \/ BookingMenuButtons
    \/ ServiceSelection
    \/ StaffSelection
    \/ MonthSelection
    \/ DateSelection
    \/ SlotSelection
    \/ NameInput
    \/ NameRejected
    \/ EmailInput
    \/ EmailRejected
    \/ PhoneInput
    \/ PhoneRejected
    \/ PaymentCheck
    \/ HelpName
    \/ HelpEmail
    \/ HelpEmailRejected
    \/ HelpMessage
    \/ ReschedulePhone
    \/ ReschedulePhoneRejected
    \/ CancelPhone
    \/ CancelPhoneRejected
    \/ AppointmentSelection
    \/ RescheduleSlotSelection
    \/ Fallback
    \/ Tick

\* the webhook under every event and the passing of time
Spec == Init /\ [][Next]_vars

(***************************************************************************)
(* Sub-specifications: the same actions, one part of the conversation at   *)
(* a time.  Every behaviour of one of them is a behaviour of Spec.         *)
(***************************************************************************)
\* the session store, the language stage and the help flow, with time passing
NextStore ==
    \/ NoMessages
    \/ Duplicate
    \/ LanguageSelection
    \/ MainMenu
    \/ MainMenuButtons
    \/ HelpName
    \/ HelpEmail
    \/ HelpEmailRejected
    \/ HelpMessage
    \/ Fallback
    \/ Tick

SpecStore == Init /\ [][NextStore]_vars

\* the booking flow of a user whose submissions are valid, abandoned and
\* taken up again at will
NextBook ==
    \/ Duplicate
    \/ LanguageSelection
    \/ MainMenu
    \/ MainMenuButtons
    \/ BookingMenuButtons
    \/ ServiceSelection
    \/ StaffSelection
    \/ MonthSelection
    \/ DateSelection
    \/ SlotSelection
    \/ NameInput
    \/ EmailInput
    \/ PhoneInput
    \/ PaymentCheck
    \/ Fallback

SpecBook == Init /\ [][NextBook]_vars

\* the reschedule and cancel flows, abandoned and taken up again at will
NextManage ==
    \/ Duplicate
    \/ LanguageSelection
    \/ MainMenu
    \/ MainMenuButtons
    \/ BookingMenuButtons
    \/ ReschedulePhone
    \/ ReschedulePhoneRejected
    \/ CancelPhone
    \/ CancelPhoneRejected
    \/ AppointmentSelection
    \/ RescheduleSlotSelection
    \/ StaleRescheduleSlot
    \/ Fallback

SpecManage == Init /\ [][NextManage]_vars

\* every flow with its validation stages, followed without a detour
NextInput ==
    \/ Duplicate
    \/ LanguageSelection
    \/ MainMenuButtons
    \/ BookingMenuButtons
    \/ ServiceSelection
    \/ StaffSelection
    \/ MonthSelection
    \/ DateSelection
    \/ SlotSelection
    \/ NameInput
    \/ NameRejected
    \/ EmailInput
    \/ EmailRejected
    \/ PhoneInput
    \/ PhoneRejected
    \/ HelpName
    \/ HelpEmail
    \/ HelpEmailRejected
    \/ ReschedulePhone
    \/ ReschedulePhoneRejected
    \/ CancelPhone
    \/ CancelPhoneRejected

SpecInput == Init /\ [][NextInput]_vars

\* the booking of a service without a price, the handler that books
\* suspended while its request is answered
NextAsync ==
    \/ LanguageSelection
    \/ MainMenuButtons
    \/ BookingMenuButtons
    \/ ServiceSelection
    \/ StaffSelection
    \/ MonthSelection
    \/ DateSelection
    \/ SlotSelection
    \/ NameInput
    \/ EmailInput
    \/ PhoneBooking
    \/ PhoneBookingAnswered
    \/ Duplicate

SpecAsync == Init /\ [][NextAsync]_vars

\* the booking flow with rows of earlier lists tapped in between
NextStale ==
    \/ Duplicate
    \/ LanguageSelection
    \/ MainMenu
    \/ MainMenuButtons
    \/ BookingMenuButtons
    \/ ServiceSelection
    \/ StaffSelection
    \/ MonthSelection
    \/ DateSelection
    \/ SlotSelection
    \/ StaleSelection
    \/ NameInput
    \/ EmailInput
    \/ PhoneInput
    \/ PaymentCheck
    \/ Fallback

SpecStale == Init /\ [][NextStale]_vars

(***************************************************************************)
(* Single functions, called on their own with inputs drawn from small sets *)
(***************************************************************************)
\* the state in which a function is called on its own: the session s at time
\* t, and the inputs u
Alone(s, t, u) ==
    /\ sessions = [w \in {User} |-> s]
    /\ now = t
    /\ uuid = 1
    /\ ev = [type |-> "none"]
    /\ sent = <<>>
    /\ reqs = <<>>
    /\ httpStatus = 200
    /\ invalidRun = 0
    /\ processed = {}
    /\ inflight = {}
    /\ unit = u

\* findNextAvailableSlots: a session that has a service and a staff member
\* and no scan cursor; a calendar, a limit and a number of days to scan
ScanCalendars == {"brief", "pair", "gaps", "late"}
ScanLimits == {1, 2, SCAN_LIMIT, PAGE_SIZE}
ScanSpans == {2, 3}
ScanSession ==
    [NewSession(1, 0) EXCEPT !.language = "en",
                             !.step = "AWAIT_APPOINTMENT_LIST_RESCHEDULE",
                             !.selectedService = svcA,
                             !.selectedStaff = "st1"]
InitScan ==
    \E cal \in ScanCalendars, limit \in ScanLimits, span \in ScanSpans :
        Alone(ScanSession, 0,
              [fn |-> "scan", cal |-> cal, limit |-> limit, span |-> span,
               got |-> <<>>, hasMore |-> TRUE, calls |-> 0])

\* the caller takes the page f and keeps the session for the next call
PageReturned(f) ==
    /\ sessions' = [w \in {User} |-> f.X.s]
    /\ reqs' = f.X.reqs
    /\ unit' = [unit EXCEPT !.got = @ \o f.slots, !.hasMore = f.hasMore,
                            !.calls = @ + 1]
    /\ ev' = [type |-> "call"]
    /\ UNCHANGED <<now, uuid, sent, httpStatus, invalidRun, processed, inflight>>

\* one more call with the same startDate (today) and limit, as long as the
\* last one reported hasMore
NextPage ==
    /\ unit.fn = "scan"
    /\ unit.hasMore
    /\ unit.calls < MaxCalls
    /\ PageReturned(findNextAvailableSlots(Ctx(Stored, now, <<>>, "ok"), unit.cal, 0,
                                           unit.limit, unit.span))

SpecScan == InitScan /\ [][NextPage]_vars

\* getSessionZohoToken: a session without a token, or with a token cached
\* up to MaxAge minutes ago; an identity provider that answers with a token,
\* answers without one, or cannot be reached
Idps == {"ok", "notoken", "throw"}
TokenSession(tok, issued) ==
    [NewSession(1, 0) EXCEPT !.language = "en", !.step = "AWAIT_MAIN",
                             !.zohoToken = tok, !.zohoTokenTime = issued]
InitToken ==
    \E idp \in Idps :
        LET u == [fn |-> "token", idp |-> idp, returned |-> None, raised |-> FALSE,
                  calls |-> 0]
        IN  \/ Alone(TokenSession(None, NoNum), 1, u)
            \/ \E age \in 0..MaxAge : Alone(TokenSession("old", 1), 1 + age, u)

\* the caller gets the token of the context X, or the error
TokenReturned(X) ==
    /\ sessions' = [w \in {User} |-> X.s]
    /\ reqs' = X.reqs
    /\ unit' = [unit EXCEPT !.returned = IF X.thrown THEN None ELSE X.s.zohoToken,
                            !.raised = X.thrown, !.calls = @ + 1]
    /\ ev' = [type |-> "call"]
    /\ UNCHANGED <<now, uuid, sent, httpStatus, invalidRun, processed, inflight>>

TokenCall ==
    /\ unit.fn = "token"
    /\ unit.calls < MaxCalls
    /\ TokenReturned(getSessionZohoToken(Ctx(Stored, now, <<>>, unit.idp)))

\* time passes between two calls
TokenWait ==
    \E d \in {TOKEN_MAX_AGE - 1, TOKEN_MAX_AGE} :
        /\ unit.fn = "token"
        /\ now + d <= MaxClock
        /\ now' = now + d
        /\ ev' = [type |-> "tick"]
        /\ UNCHANGED <<sessions, uuid, sent, reqs, httpStatus, invalidRun, processed,
                       inflight, unit>>

NextToken == TokenCall \/ TokenWait
SpecToken == InitToken /\ [][NextToken]_vars

\* fetchZoho: a session without a token or with a fresh one; the outcomes of
\* the coming attempts against the scheduling service; an identity provider
Outcomes == {"ok", "429", "nonjson", "err"}
Scripts == UNION {[1..n -> Outcomes] : n \in 0..MaxScript}
InitFetch ==
    \E script \in Scripts, idp \in Idps, tok \in {None, "old"} :
        Alone(TokenSession(tok, IF tok = None THEN NoNum ELSE 1), 1,
              [fn |-> "fetch", script |-> script, idp |-> idp, status |-> NoNum,
               data |-> Nil, parseError |-> FALSE, raised |-> FALSE, left |-> script,
               calls |-> 0])

\* the caller gets {status, data} of r, or the error
FetchReturned(r) ==
    /\ sessions' = [w \in {User} |-> r.X.s]
    /\ reqs' = r.X.reqs
    /\ unit' = [unit EXCEPT !.status = r.status, !.data = r.data,
                            !.parseError = r.parseError, !.raised = r.X.thrown,
                            !.left = r.X.script, !.calls = @ + 1]
    /\ ev' = [type |-> "call"]
    /\ UNCHANGED <<now, uuid, sent, httpStatus, invalidRun, processed, inflight>>

FetchCall ==
    /\ unit.fn = "fetch"
    /\ unit.calls = 0
    /\ FetchReturned(fetchZoho(Ctx(Stored, now, unit.script, unit.idp), "services",
                               Catalog, FETCH_RETRIES))

SpecFetch == InitFetch /\ [][FetchCall]_vars

(***************************************************************************)
(* Properties                                                              *)
(***************************************************************************)
\* an inbound message was the last thing that happened
Answered == ev.type = "message"
\* the handlers of the stages that validate a typed field
Validating == {"name", "email", "phone", "reschedulePhone", "cancelPhone", "helpEmail"}
\* the positions of the requests of the last event that carry operation op
Calls(op) == {i \in DOMAIN reqs : reqs[i].op = op}
\* the catalogue price of a service id
PriceOf(id) == Catalog[CHOOSE i \in DOMAIN Catalog : Catalog[i].id = id].price
\* the stored session equals s in every selection field
SameSelection(s) == \A f \in SelectionFields : Stored'[f] = s[f]

\* C1 (as stated): an event that carries the id the live session processed
\* last sends no message and leaves the stored session as it was.
C1_Original ==
    [][(ev'.type = "message" /\ ~Fresh /\ ev'.id = Stored.lastMsgId)
         => (sent' = <<>> /\ sessions' = sessions)]_vars

\* C1 (amended): an event that carries the id the live session processed last
\* sends no message, issues no request and changes nothing of the stored
\* session but its update time, which the lookup sets to the current time.
C1_Theorem ==
    [][(ev'.type = "message" /\ ~Fresh /\ ev'.id = Stored.lastMsgId)
         => /\ sent' = <<>>
            /\ reqs' = <<>>
            /\ httpStatus' = 200
            /\ sessions' = [sessions EXCEPT ![User].updated = now]]_vars

C1_Witness ==
    /\ Answered
    /\ ev.handler = "duplicate"
    /\ Has
    /\ Stored.lastMsgId = ev.id
    /\ Stored.updated = now
    /\ now > 0
    /\ Stored.id = 1

C3_Theorem ==
    \A i \in Calls("appointment.create") :
        PriceOf(reqs[i].service_id) > 0
          => /\ Answered
             /\ ev.handler = "payment"
             /\ reqs[i].payment_id # None
             /\ \E j \in Calls("checkout.sessions.list") : j < i /\ reqs[j].answer

C3_Witness ==
    /\ Answered
    /\ ev.handler = "payment"
    /\ \E i \in Calls("appointment.create") :
          /\ reqs[i].service_id = "svcG"
          /\ reqs[i].answer = "success"
    /\ \E j \in Calls("checkout.sessions.list") : reqs[j].answer
    /\ ~Has

C5_Original ==
    (\E op \in {"appointment.create", "appointment.cancel", "reschedulebooking"} :
        \E i \in Calls(op) : reqs[i].answer \in {"success", "failure"})
      => ~Has

\* C6: the lookup returns the stored session exactly when there is one and at
\* most SESSION_TTL has passed since its update time, and a new session (next
\* id, step INIT, every other field empty) otherwise, with the update time set
\* to the current time; an event that finds a live session continues it, and
\* the session an event leaves in the store was updated at the current time.
C6_Theorem ==
    /\ [](LET live == Has /\ now - Stored.updated <= SESSION_TTL
              got == getSession(sessions, now, uuid + 1)
          IN  /\ got.updated = now
              /\ live => got = [Stored EXCEPT !.updated = now]
              /\ ~live => /\ got.id = uuid + 1
                          /\ got.step = "INIT"
                          /\ \A f \in StrFields \ {"step"} : got[f] = None
                          /\ \A f \in NumFields \ {"id", "updated"} : got[f] = NoNum
                          /\ \A f \in ObjFields : got[f] = Nil)
    /\ [][(ev'.type = "message")
            => /\ ev'.fresh <=> ~(Has /\ now - Stored.updated <= SESSION_TTL)
               /\ Has' => /\ Stored'.updated = now
                          /\ Stored'.id = IF ev'.fresh THEN uuid + 1 ELSE Stored.id]_vars

C6_Witness ==
    /\ Answered
    /\ ~ev.fresh
    /\ Has
    /\ Stored.id = 1
    /\ now = 2 * SESSION_TTL
    /\ Stored.updated = now

C8_Original ==
    (Answered /\ ev.handler \in Validating /\ invalidRun > 0 /\ ~Has)
      => invalidRun >= MAX_ATTEMPTS

\* C9 (as stated): the third event in a row that is not a language selection
\* while the language is awaited clears the session.
C9_Original ==
    (Answered /\ ev.handler = "language" /\ invalidRun >= MAX_ATTEMPTS) => ~Has

\* C10 (as stated): an event that matches no handler of the session's step
\* (the fallback, or anything but a list reply in step AWAIT_LANGUAGE) makes
\* the step AWAIT_MAIN, is answered with the main menu and changes no
\* selection field.
C10_Original ==
    [][(/\ ev'.type = "message"
        /\ \/ ev'.handler = "fallback"
           \/ /\ ev'.handler = "language"
              /\ Arrived.step = "AWAIT_LANGUAGE"
              /\ Stored'.language = None)
         => /\ Stored'.step = "AWAIT_MAIN"
            /\ sent' = <<waMainMenu(Stored')>>
            /\ SameSelection(Arrived)]_vars

\* C10 (amended): in a session with a language, an event that matches no
\* handler of the step makes the step AWAIT_MAIN and is answered with the main
\* menu; in a session without a language, an event that selects none makes the
\* step AWAIT_LANGUAGE and is answered with the language prompt; neither
\* changes a selection field.
C10_Theorem ==
    [][(ev'.type = "message")
         => /\ ev'.handler = "fallback"
                 => /\ Arrived.language # None
                    /\ httpStatus' = 200
                    /\ Stored'.step = "AWAIT_MAIN"
                    /\ Stored'.language = Arrived.language
                    /\ sent' = <<waMainMenu(Stored')>>
                    /\ SameSelection(Arrived)
            /\ (ev'.handler = "language" /\ Stored'.language = None)
                 => /\ Stored'.step = "AWAIT_LANGUAGE"
                    /\ sent' = <<waLanguageSelection>>
                    /\ SameSelection(Arrived)]_vars

C10_Witness ==
    /\ Answered
    /\ ev.handler = "fallback"
    /\ Has
    /\ Stored.step = "AWAIT_MAIN"
    /\ Stored.selectedService # Nil
    /\ Stored.customerEmail # Nil
    /\ Stored.selectedSlot # Nil

\* the session after the webhook answered msg for the session s, for the
\* handlers that need no service but the outbound channel
Reply(s, msg) ==
    LET X == Ctx([s EXCEPT !.lastMsgId = msg.id], now, <<>>, "ok")
        h == Route(s, msg)
    IN  CASE h = "language" -> LanguageSelectionHandler(X, msg).s
          [] h = "menu" -> MainMenuHandler(X, msg).s
          [] h = "fallback" -> FallbackHandler(X, msg).s
          [] OTHER -> s
\* the events a user can always send: the try_again button, a row of the
\* language list, a picture; each under an id the session did not process last
Rescuers(s) ==
    {m \in {ButtonMsg(i, "try_again") : i \in MsgIds}
           \cup {ListMsg(i, <<"lang", "en">>) : i \in MsgIds}
           \cup {ImageMsg(i) : i \in MsgIds} : ~IsDuplicate(s, m)}

\* C11: from every reachable state there is a sequence of at most two inbound
\* events, none of which needs a service other than the outbound channel,
\* after which the session's step is AWAIT_MAIN.
C11_Theorem ==
    \E m1 \in Rescuers(Arrived) :
        \/ Reply(Arrived, m1).step = "AWAIT_MAIN"
        \/ \E m2 \in Rescuers(Reply(Arrived, m1)) :
               Reply(Reply(Arrived, m1), m2).step = "AWAIT_MAIN"

\* a session that had got as far as the phone number is back at the main menu
C11_Witness ==
    /\ Answered
    /\ ev.handler \in {"menu", "fallback"}
    /\ Has
    /\ Stored.step = "AWAIT_MAIN"
    /\ Stored.customerEmail # Nil
    /\ Stored.selectedSlot # Nil
    /\ Stored.lastMsgId = "wamid.2"

\* the values session.step takes
Steps ==
    {"INIT", "AWAIT_LANGUAGE", "AWAIT_MAIN", "AWAIT_BOOKING_MENU", "AWAIT_SERVICE",
     "AWAIT_STAFF", "AWAIT_MONTH", "AWAIT_DATE", "AWAIT_SLOT", "AWAIT_NAME",
     "AWAIT_EMAIL", "AWAIT_PHONE", "AWAIT_PAYMENT", "AWAIT_HELP_NAME",
     "AWAIT_HELP_EMAIL", "AWAIT_HELP_MESSAGE", "AWAIT_RESCHEDULE_PHONE",
     "AWAIT_CANCEL_PHONE", "AWAIT_APPOINTMENT_LIST_RESCHEDULE",
     "AWAIT_APPOINTMENT_LIST_CANCEL", "AWAIT_RESCHEDULE_SLOT"}
\* the step from which alone a data-collecting step is entered
Predecessors(step) ==
    CASE step = "AWAIT_SERVICE" -> {"AWAIT_BOOKING_MENU"}
      [] step = "AWAIT_NAME" -> {"AWAIT_SLOT"}
      [] step = "AWAIT_EMAIL" -> {"AWAIT_NAME"}
      [] step = "AWAIT_PHONE" -> {"AWAIT_EMAIL"}
      [] step = "AWAIT_PAYMENT" -> {"AWAIT_PHONE"}
      [] step = "AWAIT_RESCHEDULE_SLOT" ->
            {"AWAIT_APPOINTMENT_LIST_RESCHEDULE", "AWAIT_APPOINTMENT_LIST_CANCEL"}
      [] OTHER -> Steps
\* the event just handled changed the step of the session it found
Entered == ev'.type = "message" /\ Has' /\ Stored'.step # Arrived.step

\* C12: the step of a stored session is one of the enumerated states, and an
\* event that changes the step to AWAIT_SERVICE, AWAIT_NAME, AWAIT_EMAIL,
\* AWAIT_PHONE, AWAIT_PAYMENT or AWAIT_RESCHEDULE_SLOT found the session at the
\* predecessor of that step.
C12_Theorem ==
    [][/\ Has' => Stored'.step \in Steps
       /\ Entered => Arrived.step \in Predecessors(Stored'.step)]_vars

\* a session entered AWAIT_PAYMENT from AWAIT_PHONE
C12_Witness ==
    /\ Answered
    /\ ev.handler = "phone"
    /\ Has
    /\ Stored.step = "AWAIT_PAYMENT"
    /\ Stored.customerPhone # Nil

\* the steps of the booking wizard in their order
Wizard ==
    <<"AWAIT_SERVICE", "AWAIT_STAFF", "AWAIT_MONTH", "AWAIT_DATE", "AWAIT_SLOT",
      "AWAIT_NAME", "AWAIT_EMAIL", "AWAIT_PHONE", "AWAIT_PAYMENT">>
Rank(step) == CHOOSE i \in DOMAIN Wizard : Wizard[i] = step

\* C13 (as stated): no event moves a session from a wizard step to an earlier
\* wizard step.
C13_Original ==
    [][(ev'.type = "message" /\ Has' /\ Arrived.step \in Range(Wizard)
          /\ Stored'.step \in Range(Wizard))
         => Rank(Stored'.step) >= Rank(Arrived.step)]_vars

\* the session fields the handler h reads before it writes them
Reads(h) ==
    CASE h = "service" -> {"services"}
      [] h = "month" -> {"months", "selectedService"}
      [] h = "date" -> {"availableDates", "selectedMonth", "selectedService"}
      [] h = "slot" -> {"slots", "selectedDate"}
      [] h = "phone" -> {"selectedService", "selectedDate", "selectedSlot",
                         "customerName", "customerEmail"}
      [] h = "payment" -> {"selectedService", "selectedDate", "selectedSlot",
                           "customerName", "customerEmail", "customerPhone"}
      [] h = "appointment" -> {"appointments"}
      [] h = "rescheduleSlot" -> {"rescheduleData"}
      [] OTHER -> {}

\* C14: the handler of every event finds the session fields it reads
\* populated, and every creation request carries a service, a date, a slot
\* time, a name, an address and a phone number.
C14_Theorem ==
    [][(ev'.type = "message")
         => /\ \A f \in Reads(ev'.handler) : Arrived[f] # Nil
            /\ \A i \in DOMAIN reqs' :
                 reqs'[i].op = "appointment.create"
                     => /\ reqs'[i].service_id \in {"svcA", "svcG", "svcR"}
                        /\ reqs'[i].date # None
                        /\ reqs'[i].time # Nil
                        /\ \A j \in 1..3 : reqs'[i].customer[j] # Nil]_vars

\* a creation request was sent by the phone handler
C14_Witness ==
    /\ Answered
    /\ ev.handler = "phone"
    /\ Calls("appointment.create") # {}
    /\ ~Has

\* C15 (as stated): an event of a user is handled only while no handler of
\* another event of the same user is suspended on a network call.
C15_Original ==
    [][(ev'.type = "message") => inflight = {}]_vars

\* the last event got a body that is not JSON from the scheduling service
NonJsonAnswer(rs) == \E i \in DOMAIN rs : rs[i].op = "fetch" /\ rs[i].answer = "nonjson"

\* C20 (as stated): an event during which the scheduling service answered a
\* body that is not JSON does not end with an exception, and its handler
\* answers the user with an error prompt.
C20_Original ==
    [][(ev'.type = "message" /\ NonJsonAnswer(reqs'))
         => /\ httpStatus' = 200
            /\ sent' # <<>>
            /\ sent'[Len(sent')].tmpl = "waError"]_vars

\* the open slots of the days day..last of a calendar, in day order and, within
\* a day, in the order the provider lists them
RECURSIVE OpenSlots(_, _, _)
OpenSlots(cal, day, last) ==
    IF day > last THEN <<>>
    ELSE [i \in DOMAIN Cal(cal, day) |->
             [date |-> formatDateForZoho(day), time |-> Cal(cal, day)[i]]]
         \o OpenSlots(cal, day + 1, last)
\* the date and time of each slot the calls returned so far
Returned == [i \in DOMAIN unit.got |-> [date |-> unit.got[i].date, time |-> unit.got[i].time]]

\* C16: the slots returned by the calls so far are the first open slots of
\* the days startDate..startDate+maxDaysToScan, each once, in day order and
\* provider order; their identifiers are pairwise distinct; and when a call
\* reports hasMore = false every open slot of those days has been returned.
\* The calls end within MaxCalls.
C16_Theorem ==
    unit.fn = "scan"
        => /\ Len(Returned) <= Len(OpenSlots(unit.cal, 0, unit.span))
           /\ Returned = SubSeq(OpenSlots(unit.cal, 0, unit.span), 1, Len(Returned))
           /\ \A i, j \in DOMAIN unit.got : i # j => unit.got[i].id # unit.got[j].id
           /\ ~unit.hasMore => Returned = OpenSlots(unit.cal, 0, unit.span)
           /\ unit.calls = MaxCalls => ~unit.hasMore

\* 15 slots over two days, returned as a page of 9 and a page of 6
C16_Witness ==
    /\ unit.fn = "scan"
    /\ unit.limit = PAGE_SIZE
    /\ unit.calls = 2
    /\ ~unit.hasMore
    /\ Len(unit.got) = 15
    /\ unit.got[8].date # unit.got[9].date

\* the session holds a token issued less than TOKEN_MAX_AGE minutes ago
CachedToken ==
    /\ Stored.zohoToken # None
    /\ Stored.zohoTokenTime # NoNum
    /\ now - Stored.zohoTokenTime < TOKEN_MAX_AGE

\* C17: a call of getSessionZohoToken returns the session's token without a
\* request and without a change of the session exactly when the token was
\* issued less than 50 minutes ago; otherwise it sends one refresh request
\* and, when the provider answers with a token, stores and returns that token
\* with the current time.  The token it returns is never 50 minutes old.
C17_Theorem ==
    [][(unit'.fn = "token" /\ unit'.calls = unit.calls + 1)
         => /\ CachedToken
                 => /\ reqs' = <<>>
                    /\ ~unit'.raised
                    /\ unit'.returned = Stored.zohoToken
                    /\ sessions' = sessions
            /\ ~CachedToken
                 => /\ reqs' = <<[svc |-> "idp", op |-> "refresh"]>>
                    /\ unit.idp = "ok"
                         => /\ unit'.returned = "tok"
                            /\ Stored'.zohoToken = "tok"
                            /\ Stored'.zohoTokenTime = now
            /\ (~unit'.raised /\ unit'.returned # None)
                 => now - Stored'.zohoTokenTime < TOKEN_MAX_AGE]_vars

\* a token refreshed by one call is returned from the session by a call 49
\* minutes later
C17_Witness ==
    /\ unit.fn = "token"
    /\ unit.calls = 2
    /\ reqs = <<>>
    /\ unit.returned = "tok"
    /\ now - Stored.zohoTokenTime = TOKEN_MAX_AGE - 1

\* the requests of the last call to the service svc
To(svc) == SelectSeq(reqs, LAMBDA r : r.svc = svc)
\* the waits of the last call, in milliseconds
Sleeps == [i \in DOMAIN To("timer") |-> To("timer")[i].ms]
\* the number of failed attempts (rate limit or transport) at the head of a script
RECURSIVE Failures(_)
Failures(script) ==
    IF script = <<>> \/ Head(script) \notin {"429", "err"} THEN 0
    ELSE 1 + Failures(Tail(script))

\* C18 (as stated): when the refresh exchange fails, by a transport error or
\* by an answer without an access token, the call raises an error and no
\* request goes to the scheduling service without a resolved token.
C18_Original ==
    (unit.fn = "fetch" /\ unit.calls = 1 /\ To("idp") # <<>> /\ unit.idp # "ok")
        => /\ unit.raised
           /\ \A i \in DOMAIN To("zoho") : To("zoho")[i].token # None

\* C19: a call of fetchZoho makes at most FETCH_RETRIES retries after the
\* first attempt, whether the failures are rate limits, transport errors or a
\* mix; it retries as long as attempts fail and the budget lasts; and the
\* waits before the retries are 1000, 2000 and 3000 ms in this order.
C19_Theorem ==
    (unit.fn = "fetch" /\ unit.calls = 1)
        => /\ Len(Sleeps) <= FETCH_RETRIES
           /\ Len(To("zoho")) <= FETCH_RETRIES + 1
           /\ Len(To("idp")) <= FETCH_RETRIES + 1
           /\ \A i \in DOMAIN Sleeps : Sleeps[i] = 1000 * i
           /\ unit.idp # "throw"
                => /\ Len(To("zoho")) = Len(Sleeps) + 1
                   /\ Len(Sleeps) = IF Failures(unit.script) > FETCH_RETRIES
                                    THEN FETCH_RETRIES ELSE Failures(unit.script)
                   /\ unit.raised <=> (/\ Failures(unit.script) > FETCH_RETRIES
                                       /\ unit.script[FETCH_RETRIES + 1] = "err")

\* a rate limit, a transport error and a rate limit used up the budget, and
\* the fourth attempt was answered
C19_Witness ==
    /\ unit.fn = "fetch"
    /\ unit.calls = 1
    /\ unit.script = <<"429", "err", "429", "ok", "err">>
    /\ Sleeps = <<1000, 2000, 3000>>
    /\ unit.status = 200
    /\ unit.left = <<"err">>


\* the first call of the last event to the scheduling service used up its
\* budget: the first attempt and every retry met a rate limit or a transport error
Exhausted ==
    /\ Len(To("zoho")) > FETCH_RETRIES
    /\ \A i \in 1..(FETCH_RETRIES + 1) :
          /\ To("zoho")[i].op = "fetch"
          /\ To("zoho")[i].answer \in {"429", "err"}

\* C21 (as stated): when a call to the scheduling service still fails, by a
\* rate limit or a transport error, after the retry budget is used up, the
\* user is sent an error prompt; the handler does not end without a message.
C21_Original ==
    (Answered /\ Exhausted) => \E i \in DOMAIN sent : sent[i].tmpl = "waError"

\* C22 (as stated): every exception raised while an inbound event is handled
\* is caught at the top level of the webhook handler and the delivery is
\* answered with a success acknowledgment.
C22_Original ==
    Answered => httpStatus = 200


\* findNextAvailableSlots as the slot pages call it, on a session that may
\* hold the cursor of an earlier scan: a cursor on any day from before
\* startDate to beyond startDate + maxDaysToScan, with or without a partly
\* returned day in the cache; a provider whose attempts may fail
ScanStarts == {0, 1}
Cursors(start, span) == {NoNum} \cup (0..(start + span + 2))
ScanScripts ==
    {<<>>, <<"429">>, <<"nonjson">>,
     [i \in 1..(FETCH_RETRIES + 1) |-> "429"],
     [i \in 1..(FETCH_RETRIES + 1) |-> "err"]}
CursorSession(cal, cursor, part) ==
    [ScanSession EXCEPT !.currentSlotDate = cursor,
                        !.currentDateSlotIndex =
                            IF cursor = NoNum THEN NoNum ELSE IF part THEN 1 ELSE 0,
                        !.allSlotsForCurrentDate = IF part THEN Cal(cal, cursor) ELSE Nil]
InitCursor ==
    \E cal \in ScanCalendars \cup {"none"}, limit \in ScanLimits, span \in ScanSpans,
       start \in ScanStarts :
        \E cursor \in Cursors(start, span), part \in BOOLEAN :
            /\ part => cursor # NoNum /\ Len(Cal(cal, cursor)) > 1
            /\ Alone(CursorSession(cal, cursor, part), 0,
                     [fn |-> "cursor", cal |-> cal, limit |-> limit, span |-> span,
                      start |-> start, open |-> TRUE, calls |-> 0, faults |-> 0,
                      asked |-> <<>>, last |-> NoNum, hasMore |-> FALSE,
                      raised |-> FALSE, from |-> NoNum, end |-> NoNum,
                      queries |-> 0])

\* the positions in rs of the first attempts of the calls of fetchZoho: the
\* requests to the scheduling service that do not follow a wait
Firsts(rs) ==
    {i \in DOMAIN rs : rs[i].svc = "zoho" /\ (i = 1 \/ rs[i - 1].svc # "timer")}
\* the days the calls of fetchZoho in rs asked for, in order
RECURSIVE DaysAsked(_, _)
DaysAsked(rs, i) ==
    IF i > Len(rs) THEN <<>>
    ELSE (IF i \in Firsts(rs) THEN <<rs[i].url.selected_date>> ELSE <<>>)
         \o DaysAsked(rs, i + 1)

\* the caller of findNextAvailableSlots: an empty page ends the scan, any
\* other page moves searchStartDate to nextSearchDate; an exception leaves
\* the session as the call left it
CursorReturned(f, start, from, faulty) ==
    LET days == DaysAsked(f.X.reqs, 1)
        queries == [k \in DOMAIN days |->
                       [date |-> days[k], raised |-> f.X.thrown /\ k = Len(days),
                        end |-> start + unit.span]]
    IN  /\ sessions' = [w \in {User} |-> f.X.s]
        /\ reqs' = f.X.reqs
        /\ unit' = [unit EXCEPT !.asked = @ \o queries,
                                !.calls = @ + 1,
                                !.faults = IF faulty THEN @ + 1 ELSE @,
                                !.raised = f.X.thrown,
                                !.last = IF f.X.thrown THEN NoNum ELSE Len(f.slots),
                                !.hasMore = ~f.X.thrown /\ f.hasMore,
                                !.open = f.X.thrown \/ Len(f.slots) > 0,
                                !.start = IF f.X.thrown \/ Len(f.slots) = 0 THEN @
                                          ELSE f.nextSearchDate,
                                !.from = from,
                                !.end = start + unit.span,
                                !.queries = Len(days)]
        /\ ev' = [type |-> "call"]
        /\ UNCHANGED <<now, uuid, sent, httpStatus, invalidRun, processed, inflight>>

\* one more call, as long as the last page was not empty
CursorCall ==
    /\ unit.fn = "cursor"
    /\ unit.open
    /\ unit.calls < MaxCalls
    /\ \E script \in ScanScripts :
          /\ script # <<>> => unit.faults < MaxFaults
          /\ CursorReturned(findNextAvailableSlots(Ctx(Stored, now, script, "ok"),
                                                   unit.cal, unit.start, unit.limit,
                                                   unit.span),
                            unit.start,
                            IF Stored.currentSlotDate = NoNum THEN unit.start
                            ELSE Stored.currentSlotDate,
                            script # <<>>)

SpecCursor == InitCursor /\ [][CursorCall]_vars

\* the queries of day d so far
Asked(d) == {i \in DOMAIN unit.asked : unit.asked[i].date = d}

\* C23 (as stated): over the successive calls of one scan each calendar day is
\* queried at most once.
C23_Original ==
    unit.fn = "cursor" =>
        \A i, j \in DOMAIN unit.asked : unit.asked[i].date = unit.asked[j].date => i = j

\* C23 (amended): over the successive calls of one scan each calendar day is
\* queried by at most one call of fetchZoho that returns: a partly returned
\* day is served from the session, an exhausted or empty day is not queried
\* again.  A day is queried again only after its query raised.
C23_Theorem ==
    unit.fn = "cursor" =>
        \A i, j \in DOMAIN unit.asked :
            (unit.asked[i].date = unit.asked[j].date /\ i < j) => unit.asked[i].raised

\* a day was partly returned by one call and finished by the next, and later
\* days were queried, each once
C23_Witness ==
    /\ unit.fn = "cursor"
    /\ unit.cal = "pair"
    /\ unit.limit = SCAN_LIMIT
    /\ unit.calls = 3
    /\ unit.faults = 0
    /\ unit.last = SCAN_LIMIT
    /\ Len(unit.asked) = 2
    /\ unit.asked[1].date = formatDateForZoho(0)
    /\ unit.asked[2].date = formatDateForZoho(1)


\* C24: every call of findNextAvailableSlots that returns gives at most limit
\* slots, and its hasMore is true exactly when it gives limit slots.
C24_Theorem ==
    (unit.fn = "cursor" /\ unit.calls > 0 /\ ~unit.raised)
        => /\ unit.last <= unit.limit
           /\ unit.hasMore <=> unit.last = unit.limit

\* after full pages a call returned a page that is shorter than limit and
\* not empty, with hasMore false
C24_Witness ==
    /\ unit.fn = "cursor"
    /\ unit.calls > 2
    /\ ~unit.raised
    /\ unit.limit = SCAN_LIMIT
    /\ unit.last > 0
    /\ unit.last < unit.limit
    /\ ~unit.hasMore

\* C25: a call of findNextAvailableSlots ends after at most one query for
\* each day from the cursor to startDate + maxDaysToScan, whatever the
\* provider answers and wherever the cursor stored on the session stands, and
\* it queries no day later than startDate + maxDaysToScan.
C25_Theorem ==
    (unit.fn = "cursor" /\ unit.calls > 0)
        => /\ \A i \in DOMAIN unit.asked :
                 ParseZohoDate(unit.asked[i].date) <= unit.asked[i].end
           /\ unit.queries <= (IF unit.from > unit.end THEN 0
                               ELSE unit.end - unit.from + 1)

\* a provider without a slot on any day and a stored cursor on the day before
\* startDate: the call asked for every day up to startDate + maxDaysToScan and
\* returned an empty page
C25_Witness ==
    /\ unit.fn = "cursor"
    /\ unit.cal = "none"
    /\ unit.calls = 1
    /\ unit.start = 1
    /\ unit.from = 0
    /\ unit.queries = unit.span + 2
    /\ unit.last = 0
    /\ ~unit.open


\* The list builders on their own: a collection of 1..MaxRows entries of one
\* kind is shown by the handler that shows its first page, and the user then
\* selects the show-more row of any list message received so far
ListKinds == {"services", "staff", "months", "dates", "slots", "appointments"}
Entries(kind, n) ==
    CASE kind = "months" -> Months
      [] kind = "appointments" ->
             [i \in 1..n |-> Appt("b" \o ToString(i), "svcA", "st1")]
      [] kind \in {"services", "staff"} -> [i \in 1..n |-> [id |-> "e" \o ToString(i)]]
      [] OTHER -> [i \in 1..n |-> [id |-> <<"row", ToString(i)>>]]
InitList ==
    \E kind \in ListKinds, n \in 1..MaxRows :
        /\ kind = "months" => n = Len(Months)
        /\ Alone(ScanSession, 0,
                 [fn |-> "list", kind |-> kind, size |-> n, page |-> NoNum,
                  shown |-> <<>>])

\* a list message went out: it shows the entries after the first `first' ones
\* as page `page' of the collection
ListSent(msg, page, first) ==
    /\ sent' = <<msg>>
    /\ unit' = [unit EXCEPT !.page = page,
                            !.shown = Append(@, [msg |-> msg, page |-> page,
                                                 first |-> first])]
    /\ ev' = [type |-> "call"]
    /\ UNCHANGED <<sessions, now, uuid, reqs, httpStatus, invalidRun, processed, inflight>>

\* the first page, as the handler that enters the stage sends it
FirstPage ==
    /\ unit.fn = "list"
    /\ unit.shown = <<>>
    /\ LET all == Entries(unit.kind, unit.size)
       IN  ListSent(CASE unit.kind = "services" -> waServiceList(Stored, all)
                      [] unit.kind = "staff" -> waStaffList(Stored, all)
                      [] unit.kind = "months" -> waMonthList(Stored, all)
                      [] unit.kind = "dates" -> DatePage(Stored, all, 0)
                      [] unit.kind = "slots" -> SlotPage(Stored, all, 0)
                      [] OTHER -> waAppointmentList(Stored, all, 0, "cancel"),
                    0, 0)

\* a synthetic row
IsShowMore(row) == Len(row) > 1 /\ row[1] = "show" /\ row[2] = "more"
HasShowMore(msg) == \E i \in DOMAIN msg.rows : IsShowMore(msg.rows[i])

\* the user selects the show-more row of the k-th list message: the date and
\* slot handlers add one to the page kept on the session, the appointment
\* handler reads the page from the row
ShowMoreSelected ==
    /\ unit.fn = "list"
    /\ Len(unit.shown) < MaxShown
    /\ \E k \in DOMAIN unit.shown :
          /\ HasShowMore(unit.shown[k].msg)
          /\ LET all == Entries(unit.kind, unit.size)
                 row == unit.shown[k].msg.rows[Len(unit.shown[k].msg.rows)]
                 page == IF unit.kind = "appointments" THEN ParseInt(row[5])
                         ELSE unit.page + 1
             IN  ListSent(CASE unit.kind = "dates" -> DatePage(Stored, all, page)
                            [] unit.kind = "slots" -> SlotPage(Stored, all, page)
                            [] OTHER -> waAppointmentList(Stored, all, page, "cancel"),
                          page,
                          page * (IF unit.kind = "appointments" THEN APPT_PAGE_SIZE
                                  ELSE PAGE_SIZE))

NextList == FirstPage \/ ShowMoreSelected
SpecList == InitList /\ [][NextList]_vars

\* the number of entries the shown message m lists, and the last one of them
Listed(m) == Cardinality({i \in DOMAIN m.msg.rows : ~IsShowMore(m.msg.rows[i])})
UpTo(m) == m.first + Listed(m)

\* C26 (as stated): whenever a collection shown as a list (services, dates,
\* slots, appointments) has more entries than the message lists, the message
\* has a show-more row whose identifier carries the index of the next page.
C26_Original ==
    (unit.fn = "list" /\ unit.kind \in {"services", "dates", "slots", "appointments"})
        => \A k \in DOMAIN unit.shown :
              UpTo(unit.shown[k]) < unit.size
                  => \E i \in DOMAIN unit.shown[k].msg.rows :
                        LET row == unit.shown[k].msg.rows[i]
                        IN  /\ IsShowMore(row)
                            /\ row[Len(row)] = ToString(unit.shown[k].page + 1)

\* C27 (as stated): every list message has at most LIST_CAP rows, the
\* show-more row included, whatever the builder and the size of the collection.
C27_Original ==
    unit.fn = "list" => \A k \in DOMAIN unit.shown : Len(unit.shown[k].msg.rows) <= LIST_CAP


\* The payloads on their own: a session that holds a service with a
\* free-text duration, a selected date and a slot whose time is written in
\* 12-hour form with AM or PM (in either case) or in 24-hour form; the booking flow
\* builds the creation payload, the reschedule flow offers the slot as a row
\* and handles its selection
SlotTimes ==
    {Time(Pad2(h), m, ap) : h \in 1..12, m \in Minutes, ap \in {"AM", "PM", "am", "pm"}}
        \cup {Time(Pad2(h), m, "") : h \in Hours, m \in Minutes}
Durations == {Nil, <<"mins">>, <<"0", "mins">>, <<"45", "mins">>,
              <<"1", "hr", "30", "mins">>, <<"90">>}
TimedService(text) ==
    [id |-> "svcA", service_type |-> "APPOINTMENT",
     assigned_staffs |-> <<"st1">>, assigned_groups |-> <<>>,
     let_customer_select_staff |-> TRUE, price |-> 0, duration |-> text]
InitTime ==
    \E flow \in {"create", "reschedule"}, tm \in SlotTimes, text \in Durations,
       day \in {0, 1} :
        /\ flow = "reschedule" => tm \in KnownTimes
        /\ Alone([ScanSession EXCEPT !.selectedService = TimedService(text),
                                     !.rescheduleData =
                                         [booking_id |-> "b1", service_id |-> "svcA",
                                          staff_id |-> "st1"]],
                 0,
                 [fn |-> "time", flow |-> flow, slot |-> tm, day |-> day,
                  duration |-> text, built |-> FALSE, start |-> Nil, end |-> Nil])

\* the payload went out with these start and end times
PayloadSent(X, start, end) ==
    /\ sessions' = IF X.stored THEN [w \in {User} |-> X.s] ELSE <<>>
    /\ reqs' = X.reqs
    /\ sent' = X.sent
    /\ unit' = [unit EXCEPT !.built = TRUE, !.start = start, !.end = end]
    /\ ev' = [type |-> "call"]
    /\ UNCHANGED <<now, uuid, httpStatus, invalidRun, processed, inflight>>

\* createZohoAppointment on the date and slot the booking flow stored
CreationPayload ==
    /\ unit.fn = "time"
    /\ unit.flow = "create"
    /\ ~unit.built
    /\ LET s == [Stored EXCEPT !.selectedDate =
                                   [id |-> <<"date", formatDateForZoho(unit.day)>>,
                                    label |-> formatDate(unit.day),
                                    rawDate |-> formatDateForZoho(unit.day),
                                    slots |-> 1],
                               !.selectedSlot =
                                   [id |-> <<"slot", formatDateForZoho(unit.day),
                                             TimeToken(unit.slot), "0">>,
                                    time |-> unit.slot]]
           X == createZohoAppointmentSent(Ctx(s, now, <<>>, "ok"))
           r == X.reqs[Len(X.reqs)]
       IN  PayloadSent(X, r.from_time, r.to_time)

\* the slot as findNextAvailableSlots offers it, and the handler of
\* AWAIT_RESCHEDULE_SLOT on the selection of its row
ReschedulePayload ==
    /\ unit.fn = "time"
    /\ unit.flow = "reschedule"
    /\ ~unit.built
    /\ LET held == Ctx([Stored EXCEPT !.step = "AWAIT_RESCHEDULE_SLOT",
                                      !.currentSlotDate = unit.day,
                                      !.currentDateSlotIndex = 0,
                                      !.allSlotsForCurrentDate = <<unit.slot>>],
                       now, <<>>, "ok")
           page == TakeSlots(held, [X |-> held, currentDate |-> unit.day,
                                    slots |-> <<>>, slotCounter |-> 0], SCAN_LIMIT)
           X == RescheduleSlotHandler(page.X, ListMsg("wamid.1", page.slots[1].id),
                                      "none", "success")
           r == X.reqs[Len(X.reqs)]
       IN  PayloadSent(X, r.start_time, r.end_time)

NextTime == CreationPayload \/ ReschedulePayload
SpecTime == InitTime /\ [][NextTime]_vars

\* the hour of the slot in 24-hour form, as the claim defines it
Hour24 ==
    LET h == ParseNum(unit.slot.hh)
    IN  CASE unit.slot.ap \in {"PM", "pm"} /\ h # 12 -> h + 12
          [] unit.slot.ap \in {"AM", "am"} /\ h = 12 -> 0
          [] OTHER -> h

\* C28: the creation payload's from_time carries the slot time in 24-hour
\* form: a PM hour other than 12 plus 12, 12 AM as 0, every other hour as it
\* is, a time without AM or PM unchanged; the minute is kept.
C28_Theorem ==
    (unit.fn = "time" /\ unit.flow = "create" /\ unit.built)
        => /\ unit.start.hour = Pad2(Hour24)
           /\ unit.start.minute = unit.slot.mm

\* 02:30 PM went out as 14:30
C28_Witness ==
    /\ unit.fn = "time"
    /\ unit.flow = "create"
    /\ unit.built
    /\ unit.slot = Time("02", "30", "PM")
    /\ unit.start.hour = "14"
    /\ unit.start.minute = "30"

\* C29 (as stated): selecting the row of a slot that findNextAvailableSlots
\* offered makes the reschedule handler send a start time made of the slot's
\* date and the 24-hour form of the slot's time.
C29_Original ==
    (unit.fn = "time" /\ unit.flow = "reschedule" /\ unit.built)
        => /\ unit.start.date = formatIsoDate(unit.day)
           /\ unit.start.hour = Hour24
           /\ unit.start.minute = unit.slot.mm

\* C30 (as stated): in the creation payload and in the reschedule payload the
\* end time is the start time plus the service duration in minutes (the first
\* integer of the duration text, 30 without one), with the date of the
\* following day when that is past midnight.
C30_Original ==
    (unit.fn = "time" /\ unit.built)
        => LET text == unit.duration
               runs == {i \in DOMAIN text : \E n \in 0..MaxNumeral : ToString(n) = text[i]}
               minutes == IF runs = {} THEN DEFAULT_DURATION
                          ELSE CHOOSE n \in 0..MaxNumeral :
                                   ToString(n) = text[CHOOSE i \in runs : \A j \in runs : i <= j]
               hour == IF unit.flow = "create" THEN ParseNum(unit.start.hour)
                       ELSE unit.start.hour
               begin == hour * 60 + ParseNum(unit.start.minute)
               total == begin + minutes
           IN  /\ unit.end.date = formatDateForZoho(unit.day + (IF total >= MinutesPerDay
                                                                 THEN 1 ELSE 0))
               /\ ParseNum(unit.end.hour) * 60 + ParseNum(unit.end.minute)
                      = total % MinutesPerDay


\* C31 (as stated): every date sent to the scheduling service is in
\* DD-Mon-YYYY form, among them the date of from_time and to_time of the
\* creation payload and of start_time and end_time of the reschedule payload.
C31_Original ==
    (unit.fn = "time" /\ unit.built)
        => /\ ParseZohoDate(unit.start.date) # NaN
           /\ ParseZohoDate(unit.end.date) # NaN


\* the creation requests among the requests of the event just handled
Creations == {i \in DOMAIN reqs : reqs[i].op = "appointment.create"}
\* the key the category of a service selects
KeyOf(svc) ==
    CASE svc.service_type \in {"COLLECTIVE", "GROUP"} -> "group_id"
      [] svc.service_type = "RESOURCE" -> "resource_id"
      [] OTHER -> "staff_id"

C33_Original ==
    \A a \in inflight, b \in inflight :
        a.session.id = b.session.id => a.id = b.id

\* C34: when an event is delivered again while the handler of its first
\* delivery is still suspended on the creation call and the session is live
\* (stored and not expired), the second delivery is skipped as a duplicate:
\* the id was recorded on the session before the first handler suspended.
C34_Theorem ==
    [][(/\ ev.type = "message"
        /\ ev'.type = "message"
        /\ ev'.id = ev.id
        /\ ~ev'.fresh
        /\ \E h \in inflight : h.id = ev.id /\ Has /\ Stored.id = h.session.id)
            => ev'.handler = "duplicate"]_vars

C34_Witness ==
    /\ ev.type = "message"
    /\ ev.handler = "duplicate"
    /\ ~ev.fresh
    /\ Has
    /\ \E h \in inflight : h.id = ev.id /\ Stored.id = h.session.id

\* the first slot page a scan from today gives for the calendar cal, for the
\* service and staff or group of the session s
PageFromToday(s, cal) ==
    waSlotListWithShowMore(s,
        findNextAvailableSlotsRescan(Ctx(s, now, <<>>, "ok"), cal, 0,
                                     SCAN_LIMIT, MAX_DAYS_TO_SCAN).slots,
        TRUE)

\* a reschedule flow started with the last event: the appointment handler
\* sent the searching message
RescheduleStarted(e, msgs) ==
    /\ e.type = "message"
    /\ e.handler = "appointment"
    /\ \E i \in DOMAIN msgs : msgs[i] = waSearchingMessage(<<>>)

\* C35 (as stated): the slot list that opens a reschedule flow is the page a
\* scan from today gives for the service and staff of the selected
\* appointment, whatever an earlier reschedule flow left on the session.
C35_Original ==
    [][(RescheduleStarted(ev', sent') /\ Has') =>
          \A i \in DOMAIN sent' :
              sent'[i].tmpl = "waSlotListWithShowMore" =>
                  \E cal \in Calendars : sent'[i] = PageFromToday(Stored', cal)]_vars

\* the last event was a row tapped while a reschedule slot was awaited, other
\* than the show-more row (whose handler sends the searching message)
SlotRowTapped(e, msgs) ==
    /\ e.type = "message"
    /\ e.handler = "rescheduleSlot"
    /\ \A i \in DOMAIN msgs : msgs[i] # waSearchingMessage(<<>>)

\* a start time the handler derives from a slot some calendar offers
Offerable(start) ==
    \E cal \in Calendars, d \in 0..MAX_DAYS_TO_SCAN :
        \E k \in DOMAIN Cal(cal, d) :
            /\ start.date = formatIsoDate(d)
            /\ Pad2(start.hour) = Cal(cal, d)[k].hh
            /\ start.minute = Cal(cal, d)[k].mm

\* C36 (as stated): a row tapped while a reschedule slot is awaited never
\* makes the handler end with an exception, and a reschedule command is sent
\* only for a slot the scan can have offered.
C36_Original ==
    [][SlotRowTapped(ev', sent') =>
          /\ httpStatus' = 200
          /\ \A i \in DOMAIN reqs' :
                reqs'[i].op = "reschedulebooking" => Offerable(reqs'[i].start_time)]_vars

\* the last event was an appointment row tapped by a live session at step
AppointmentTappedAt(step) ==
    /\ Has
    /\ Stored.step = step
    /\ ev'.type = "message"
    /\ ev'.handler = "appointment"
    /\ ~ev'.fresh

\* C37 (as stated): an appointment selection at the reschedule list never
\* sends a cancellation, and one at the cancel list never starts a reschedule
\* flow.
C37_Original ==
    [][/\ AppointmentTappedAt("AWAIT_APPOINTMENT_LIST_RESCHEDULE") =>
              \A i \in DOMAIN reqs' : reqs'[i].op # "appointment.cancel"
       /\ AppointmentTappedAt("AWAIT_APPOINTMENT_LIST_CANCEL") =>
              ~RescheduleStarted(ev', sent')]_vars

\* the staff member is assigned to the service
Assigned(staff, service) ==
    \E k \in DOMAIN service.assigned_staffs : service.assigned_staffs[k] = staff

\* the staff identifiers the requests of the last event carry: staff_id of
\* the slot queries of a month or date selection and of a creation request
StaffUsed(e, rs) ==
    {rs[i].url.staff_id :
        i \in {j \in DOMAIN rs : e.handler \in {"month", "date"} /\ rs[j].op = "fetch"}}
    \cup {rs[i].target.value :
        i \in {j \in DOMAIN rs : /\ rs[j].op = "appointment.create"
                                 /\ rs[j].target.kind = "staff_id"}}

\* C38 (as stated): the staff identifier of every slot query and creation
\* request is a staff member assigned to the selected service, and a session
\* awaits a staff selection only for a service that lets the customer choose.
C38_Original ==
    [][(ev'.type = "message" /\ Has') =>
          /\ \A staff \in StaffUsed(ev', reqs') \ {None} :
                Assigned(staff, Stored'.selectedService)
          /\ Stored'.step = "AWAIT_STAFF" =>
                /\ Stored'.selectedService # Nil
                /\ Stored'.selectedService.let_customer_select_staff]_vars

\* the slot rows of a slot list, without the show-more row
SlotRows(m) == SelectSeq(m.rows, LAMBDA id : id # <<"show", "more", "slots">>)

\* C39 (as stated): a slot list of the reschedule flow carries the show-more
\* row only when the scan reported hasMore for the page, which it does when
\* the page holds as many slots as the limit.
C39_Original ==
    [][(ev'.type = "message" /\ ev'.handler \in {"appointment", "rescheduleSlot"}) =>
          \A i \in DOMAIN sent' :
              (/\ sent'[i].tmpl = "waSlotListWithShowMore"
               /\ Len(SlotRows(sent'[i])) < Len(sent'[i].rows))
                  => Len(SlotRows(sent'[i])) = SCAN_LIMIT]_vars

\* C40 (as stated): when the handler of an event ended with an exception
\* (status 500), the next delivery of the same event to the live session is
\* handled again and not skipped as a duplicate.
C40_Original ==
    [][(/\ ev.type = "message"
        /\ httpStatus = 500
        /\ ev'.type = "message"
        /\ ev'.id = ev.id
        /\ ~ev'.fresh)
            => ev'.handler # "duplicate"]_vars

====
